---- MODULE Spec2Model ----
(***************************************************************************)
(* Model of the Barchart library (src/src/barchart.js): the aggregation   *)
(* of time-stamped observations into calendar buckets, the planning of    *)
(* the y-axis (linear and log10) and the bar offsets of renderChartPanel, *)
(* and the data path and the dimensions of createChart.                   *)
(*                                                                         *)
(* Conventions                                                             *)
(*   - a JavaScript string is a sequence of one-character strings;        *)
(*   - a JavaScript number is a record [k, n]: k = "num" with the value   *)
(*     n, or "nan", "inf", "ninf"; null and undefined are records of the  *)
(*     same shape;                                                         *)
(*   - in the aggregator and in createChart's data path a finite number   *)
(*     n stands for n/1000, so values with up to three decimals are       *)
(*     exact;                                                              *)
(*   - in renderChartPanel a finite value n stands for n/10 and a pixel   *)
(*     offset n for n/1000 pixels; Math.log10 has three decimals;         *)
(*   - the dimensions of createChart are rational numbers of pixels;      *)
(*   - arithmetic on finite numbers is exact: the rounding of IEEE        *)
(*     doubles is not modelled;                                           *)
(*   - a Date is [valid, t] with t the hours since 1970-01-01T00:00Z;     *)
(*   - tz is the environment's UTC offset in hours (local = UTC + tz).    *)
(***************************************************************************)
EXTENDS Integers, Sequences, FiniteSets

VARIABLES
  tz,        \* environment: UTC offset of local time, in hours
  engine,    \* environment: how Date parses strings outside the ISO format
  mode,      \* aggregates(): the mode argument
  data,      \* aggregates(): the data argument, a sequence of observations
  result,    \* aggregates(): the records returned for data
  result2,   \* aggregates(): the records returned when result is fed back
  pc,        \* position of the caller: "build", "done", "redone"
  cfg,            \* renderChartPanel(): renderType, yAxisStartAtZero, yAxisScale
  aggregatedData, \* renderChartPanel(): the records of the panel
  minValue,       \* renderChartPanel(): lower end of the y domain
  maxValue,       \* renderChartPanel(): upper end of the y domain
  niceStep,       \* renderChartPanel(): step of the linear axis
  tickValues,     \* renderChartPanel(): the major ticks
  bars,           \* renderChartPanel(): per record, the y offsets of its bars
  minorTicks,     \* renderChartPanel(): per interval of the log axis, its minor ticks
  panelPc,        \* position of the renderer: "build", "rendered"
  layoutCfg,      \* createChart(): visibleWidth, margin, barMinWidth
  barCount,       \* createChart(): the number of records of the first series
  innerWidth,     \* createChart(): width of the plot area
  barStep,        \* createChart(): distance between two bars
  barWidth,       \* createChart(): width of a bar
  layoutPc,       \* position of the layout: "config", "planned"
  chartCfg,       \* createChart(): renderType and chartType of the config
  timeSeries,     \* createChart(): the data array of every entry of timeSeries
  chartData,      \* createChart(): the data of the first normalized series
  sharedAggregatedData, \* createChart(): processData of that data
  chartResult,    \* createChart(): "pending", "chart", "null", "RangeError"
  fmtArgs,        \* formatNumber(): value, format, decimals, useThousandSeparator
  fmtResult,      \* formatNumber(): the string returned
  fmtPc,          \* position of the caller: "call", "done"
  seriesConfig,     \* createChart(): cfg.timeSeries, entries [given, data, renderType]
  normalizedSeries, \* createChart(): the entries with their defaults
  seriesDataSets,   \* createChart(): processData of every normalized entry
  panelBarCount,    \* createChart(): barCount, 0 before the layout
  renderedPanels,   \* createChart(): renderType and panelData of every panel
  xAxisData,        \* createChart(): the records given to renderXAxis
  elementsCreated,  \* createChart(): the tooltip and the container exist
  seriesResult,     \* createChart(): "pending", "chart", "null"
  scrollLeft,         \* scroll sync: scrollLeft of every scroll container
  scrollPending,      \* scroll sync: the containers with a scroll event to dispatch
  syncLock,           \* scroll sync: the lock of the scroll handler
  pendingTimers,      \* scroll sync: the release timers set and not yet fired or cleared
  syncTimeoutPending, \* scroll sync: the timer named by syncTimeout is one of them
  lastScrolled,       \* scroll sync: the container the user scrolled last, 0 for none
  scrollToEnd,        \* scroll sync: the animation frame of cfg.scrollToEnd is requested
  barPositions,     \* hover sync: the number of bars of every panel
  hoverZone,        \* hover sync: the hover zone the pointer is in, panel 0 for none
  hoverIndicator,   \* hover sync: display and bar of the indicator of every panel
  tooltipDisplay    \* hover sync: display of the shared tooltip

aggVars == <<tz, engine, mode, data, result, result2, pc>>

panelVars ==
  <<cfg, aggregatedData, minValue, maxValue, niceStep, tickValues, bars, minorTicks,
    panelPc>>

layoutVars == <<layoutCfg, barCount, innerWidth, barStep, barWidth, layoutPc>>

chartVars == <<chartCfg, timeSeries, chartData, sharedAggregatedData, chartResult>>

formatVars == <<fmtArgs, fmtResult, fmtPc>>

seriesVars == <<seriesConfig, normalizedSeries, seriesDataSets, panelBarCount, renderedPanels,
    xAxisData, elementsCreated, seriesResult>>

scrollVars == <<scrollLeft, scrollPending, syncLock, pendingTimers, syncTimeoutPending,
    lastScrolled, scrollToEnd>>

hoverVars == <<barPositions, hoverZone, hoverIndicator, tooltipDisplay>>

vars == <<aggVars, panelVars, layoutVars, chartVars, formatVars, seriesVars, scrollVars, hoverVars>>

\* what a call of aggregates() leaves alone
nonAggVars == <<panelVars, layoutVars, chartVars, formatVars, seriesVars, scrollVars, hoverVars>>

\* what the rendering of a panel leaves alone
nonPanelVars == <<aggVars, layoutVars, chartVars, formatVars, seriesVars, scrollVars, hoverVars>>

\* what the layout leaves alone
nonLayoutVars == <<aggVars, panelVars, chartVars, formatVars, seriesVars, scrollVars, hoverVars>>

\* what the data path of createChart leaves alone
nonChartVars == <<aggVars, panelVars, layoutVars, formatVars, seriesVars, scrollVars, hoverVars>>

\* what a call of formatNumber() leaves alone
nonFormatVars == <<aggVars, panelVars, layoutVars, chartVars, seriesVars, scrollVars, hoverVars>>

\* what createChart leaves alone when it lays out its panels
nonSeriesVars == <<aggVars, panelVars, layoutVars, chartVars, formatVars, scrollVars, hoverVars>>

\* what the scroll handlers leave alone
nonScrollVars == <<aggVars, panelVars, layoutVars, chartVars, formatVars, seriesVars, hoverVars>>

\* what the hover listeners leave alone
nonHoverVars == <<aggVars, panelVars, layoutVars, chartVars, formatVars, seriesVars, scrollVars>>

-----------------------------------------------------------------------------
(* JavaScript numbers *)

Fin(n) == [k |-> "num", n |-> n]

NaN == [k |-> "nan", n |-> 0]

PosInfinity == [k |-> "inf", n |-> 0]

NegInfinity == [k |-> "ninf", n |-> 0]

isNaN(x) == x.k = "nan"

isFinite(x) == x.k = "num"

\* a + b
JsAdd(a, b) ==
  IF isNaN(a) \/ isNaN(b) THEN NaN
  ELSE IF isFinite(a) /\ isFinite(b) THEN Fin(a.n + b.n)
  ELSE IF isFinite(a) THEN b
  ELSE IF isFinite(b) THEN a
  ELSE IF a.k = b.k THEN a
  ELSE NaN

\* a < b (false when either is NaN)
JsLess(a, b) ==
  IF isNaN(a) \/ isNaN(b) THEN FALSE
  ELSE IF a.k = "ninf" THEN b.k # "ninf"
  ELSE IF b.k = "inf" THEN a.k # "inf"
  ELSE IF a.k = "inf" \/ b.k = "ninf" THEN FALSE
  ELSE a.n < b.n

\* Math.max(a, b)
JsMax2(a, b) ==
  IF isNaN(a) \/ isNaN(b) THEN NaN ELSE IF JsLess(a, b) THEN b ELSE a

\* Math.min(a, b)
JsMin2(a, b) ==
  IF isNaN(a) \/ isNaN(b) THEN NaN ELSE IF JsLess(b, a) THEN b ELSE a

RECURSIVE MathMax(_)
\* Math.max(...xs)
MathMax(xs) ==
  IF Len(xs) = 0 THEN NegInfinity ELSE JsMax2(Head(xs), MathMax(Tail(xs)))

RECURSIVE MathMin(_)
\* Math.min(...xs)
MathMin(xs) ==
  IF Len(xs) = 0 THEN PosInfinity ELSE JsMin2(Head(xs), MathMin(Tail(xs)))

RECURSIVE GCD(_, _)
\* the greatest common divisor of a >= 0 and b >= 0
GCD(a, b) == IF b = 0 THEN a ELSE GCD(b, a % b)

RECURSIVE SumFrom(_, _)
\* xs.reduce((a, b) => a + b, acc)
SumFrom(acc, xs) ==
  IF Len(xs) = 0 THEN acc ELSE SumFrom(JsAdd(acc, Head(xs)), Tail(xs))

\* Math.round(sum / len * 100) / 100, for sum in thousandths: the nearest
\* hundredth, a tie going up (Math.round rounds half towards +Infinity)
RoundAvg(sum, len) ==
  IF isFinite(sum) THEN Fin(10 * ((sum.n + 5 * len) \div (10 * len))) ELSE sum

-----------------------------------------------------------------------------
(* Date: calendar arithmetic of the built-in Date object *)

\* civil date of a day number (days since 1970-01-01), proleptic Gregorian
CivilFromDays(days) ==
  LET z   == days + 719468
      era == z \div 146097
      doe == z - era * 146097
      yoe == (doe - doe \div 1460 + doe \div 36524 - doe \div 146096) \div 365
      doy == doe - (365 * yoe + yoe \div 4 - yoe \div 100)
      mp  == (5 * doy + 2) \div 153
      d   == doy - (153 * mp + 2) \div 5 + 1
      m   == IF mp < 10 THEN mp + 3 ELSE mp - 9
  IN  [y |-> yoe + era * 400 + (IF m <= 2 THEN 1 ELSE 0), m |-> m, d |-> d]

\* Date.UTC(y, m - 1, d) / 86400000: the day number of a civil date
DaysFromCivil(y, m, d) ==
  LET yy  == IF m <= 2 THEN y - 1 ELSE y
      era == yy \div 400
      yoe == yy - era * 400
      mp  == IF m > 2 THEN m - 3 ELSE m + 9
      doy == (153 * mp + 2) \div 5 + d - 1
      doe == yoe * 365 + yoe \div 4 - yoe \div 100 + doy
  IN  era * 146097 + doe - 719468

InvalidDate == [valid |-> FALSE, t |-> 0]

DateAt(t) == [valid |-> TRUE, t |-> t]

\* day number of the date in local time and in UTC
LocalDay(date) == (date.t + tz) \div 24

UTCDay(date) == date.t \div 24

getFullYear(date) == CivilFromDays(LocalDay(date)).y

\* 0 = January
getMonth(date) == CivilFromDays(LocalDay(date)).m - 1

getDate(date) == CivilFromDays(LocalDay(date)).d

\* 0 = Sunday; 1970-01-01 was a Thursday
getDay(date) == (LocalDay(date) + 4) % 7

-----------------------------------------------------------------------------
(* Strings *)

DigitChars == <<"0", "1", "2", "3", "4", "5", "6", "7", "8", "9">>

RECURSIVE JsString(_)
\* String(n) for an integer n >= 0
JsString(n) ==
  IF n < 10 THEN <<DigitChars[n + 1]>>
  ELSE JsString(n \div 10) \o <<DigitChars[(n % 10) + 1]>>

RECURSIVE padStart(_, _)
\* s.padStart(len, '0')
padStart(s, len) == IF Len(s) >= len THEN s ELSE padStart(<<"0">> \o s, len)

\* UTF-16 code unit of the characters the keys are made of
CharCode(c) ==
  CASE c = "-" -> 45
    [] c = "0" -> 48 [] c = "1" -> 49 [] c = "2" -> 50 [] c = "3" -> 51
    [] c = "4" -> 52 [] c = "5" -> 53 [] c = "6" -> 54 [] c = "7" -> 55
    [] c = "8" -> 56 [] c = "9" -> 57
    [] c = "W" -> 87
    [] OTHER -> 120

RECURSIVE localeCompare(_, _)
\* a.localeCompare(b): negative, zero or positive
localeCompare(a, b) ==
  IF Len(a) = 0 /\ Len(b) = 0 THEN 0
  ELSE IF Len(a) = 0 THEN -1
  ELSE IF Len(b) = 0 THEN 1
  ELSE IF CharCode(Head(a)) < CharCode(Head(b)) THEN -1
  ELSE IF CharCode(Head(a)) > CharCode(Head(b)) THEN 1
  ELSE localeCompare(Tail(a), Tail(b))

isDigit(c) == \E i \in 1..10 : DigitChars[i] = c

RECURSIVE ToNumber(_, _)
\* the integer written by a string of digits
ToNumber(acc, s) ==
  IF Len(s) = 0 THEN acc
  ELSE ToNumber(10 * acc + (CharCode(Head(s)) - 48), Tail(s))

allDigits(s) == Len(s) > 0 /\ \A i \in 1..Len(s) : isDigit(s[i])

-----------------------------------------------------------------------------
(* Date utilities of the library *)

\* getWeek(date): ISO week number of the local calendar date
getWeek(date) ==
  LET d0       == DaysFromCivil(getFullYear(date), getMonth(date) + 1, getDate(date))
      utcDay   == (d0 + 4) % 7
      dayNum   == IF utcDay = 0 THEN 7 ELSE utcDay
      d        == d0 + 4 - dayNum
      yearStart == DaysFromCivil(CivilFromDays(d).y, 1, 1)
      days1    == (d - yearStart) + 1
  IN  (days1 + 6) \div 7

\* formatMonth(date): YYYY-MM
formatMonth(date) ==
  JsString(getFullYear(date)) \o <<"-">> \o padStart(JsString(getMonth(date) + 1), 2)

\* formatWeek(date): YYYY-Www
formatWeek(date) ==
  JsString(getFullYear(date)) \o <<"-", "W">> \o padStart(JsString(getWeek(date)), 2)

\* formatYear(date): YYYY
formatYear(date) == JsString(getFullYear(date))

\* the day key taken from the local calendar date instead of the UTC one
toISODate_Local(date) ==
  padStart(JsString(getFullYear(date)), 4) \o <<"-">>
    \o padStart(JsString(getMonth(date) + 1), 2) \o <<"-">>
    \o padStart(JsString(getDate(date)), 2)

\* date.toISOString().split('T')[0]: the UTC calendar date, YYYY-MM-DD
toISODate(date) ==
  LET c == CivilFromDays(UTCDay(date))
  IN  padStart(JsString(c.y), 4) \o <<"-">> \o padStart(JsString(c.m), 2)
        \o <<"-">> \o padStart(JsString(c.d), 2)

\* How the engine reads a string that is not in the ISO date format; the
\* language leaves it to the implementation.  "strict": Invalid Date.
\* "v8": a number 0 is 2000-01-01 and 1..12 the first day of that month of
\* 2001, both at local midnight; anything else is Invalid Date.
LegacyParse(s) ==
  IF engine = "v8" /\ allDigits(s) /\ Len(s) <= 2
  THEN LET n == ToNumber(0, s)
       IN  IF n = 0 THEN DateAt(DaysFromCivil(2000, 1, 1) * 24 - tz)
           ELSE IF n <= 12 THEN DateAt(DaysFromCivil(2001, n, 1) * 24 - tz)
           ELSE InvalidDate
  ELSE InvalidDate

\* new Date(s) for a string s: the date-only ISO forms YYYY, YYYY-MM and
\* YYYY-MM-DD are UTC midnight; other strings are left to the engine
DateParse(s) ==
  LET year  == ToNumber(0, SubSeq(s, 1, 4))
      month == ToNumber(0, SubSeq(s, 6, 7))
      day   == ToNumber(0, SubSeq(s, 9, 10))
      isY   == Len(s) >= 4 /\ allDigits(SubSeq(s, 1, 4))
      isM   == Len(s) >= 7 /\ s[5] = "-" /\ allDigits(SubSeq(s, 6, 7))
                 /\ month \in 1..12
      isD   == Len(s) >= 10 /\ s[8] = "-" /\ allDigits(SubSeq(s, 9, 10))
                 /\ day \in 1..31
  IN  IF Len(s) = 4 /\ isY THEN DateAt(DaysFromCivil(year, 1, 1) * 24)
      ELSE IF Len(s) = 7 /\ isY /\ isM THEN DateAt(DaysFromCivil(year, month, 1) * 24)
      ELSE IF Len(s) = 10 /\ isY /\ isM /\ isD
        THEN DateAt(DaysFromCivil(year, month, day) * 24)
      ELSE LegacyParse(s)

-----------------------------------------------------------------------------
(* aggregates(data, mode) *)

Modes == {"byDay", "byWeek", "byMonth", "byYear", "byWeekday"}

\* data.map(...): the date parsed, the value as a number
Normalize(d) == [date |-> DateParse(d.date), value |-> d.value]

\* the filter of the normalisation
Keep(d) == d.date.valid /\ ~isNaN(d.value)

RECURSIVE NormalizeAll(_)
\* data.map(...).filter(...)
NormalizeAll(ds) ==
  IF Len(ds) = 0 THEN <<>>
  ELSE LET d == Normalize(Head(ds))
       IN  (IF Keep(d) THEN <<d>> ELSE <<>>) \o NormalizeAll(Tail(ds))

\* getGroupKey(date)
getGroupKey(date, m) ==
  CASE m = "byDay"     -> toISODate(date)
    [] m = "byWeek"    -> formatWeek(date)
    [] m = "byMonth"   -> formatMonth(date)
    [] m = "byYear"    -> formatYear(date)
    [] m = "byWeekday" -> JsString(getDay(date))
    [] OTHER           -> formatMonth(date)

\* groups.get(key).push(d), with groups.set(key, []) first for a new key:
\* groups is the Map as the sequence of its entries in insertion order
GroupsPut(groups, key, d) ==
  IF \E i \in 1..Len(groups) : groups[i].key = key
  THEN [i \in 1..Len(groups) |->
          IF groups[i].key = key
          THEN [groups[i] EXCEPT !.values = Append(@, d)]
          ELSE groups[i]]
  ELSE Append(groups, [key |-> key, values |-> <<d>>])

RECURSIVE GroupAll(_, _, _)
\* normalized.forEach(d => ...)
GroupAll(groups, ds, m) ==
  IF Len(ds) = 0 THEN groups
  ELSE GroupAll(GroupsPut(groups, getGroupKey(Head(ds).date, m), Head(ds)),
                Tail(ds), m)

\* the record with the maximum and the minimum exchanged
AggregateGroup_Swapped(g) ==
  LET allValues == [i \in 1..Len(g.values) |-> g.values[i].value]
  IN  [date      |-> g.key,
       value     |-> RoundAvg(SumFrom(Fin(0), allValues), Len(allValues)),
       highValue |-> MathMin(allValues),
       lowValue  |-> MathMax(allValues),
       count     |-> Len(g.values)]

\* the record pushed for one group
AggregateGroup(g) ==
  LET allValues == [i \in 1..Len(g.values) |-> g.values[i].value]
  IN  [date      |-> g.key,
       value     |-> RoundAvg(SumFrom(Fin(0), allValues), Len(allValues)),
       highValue |-> MathMax(allValues),
       lowValue  |-> MathMin(allValues),
       count     |-> Len(g.values)]

RECURSIVE SortInsert(_, _)
\* r inserted into the sorted records rs, after the records that compare <= r
SortInsert(rs, r) ==
  IF Len(rs) = 0 THEN <<r>>
  ELSE IF localeCompare(Head(rs).date, r.date) <= 0
    THEN <<Head(rs)>> \o SortInsert(Tail(rs), r)
  ELSE <<r>> \o rs

\* the sort left out: the records stay in the Map's insertion order
SortByDate_Unsorted(rs) == rs

RECURSIVE SortByDate(_)
\* result.sort((a, b) => a.date.localeCompare(b.date)), a stable sort
SortByDate(rs) ==
  IF Len(rs) = 0 THEN <<>>
  ELSE SortInsert(SortByDate(SubSeq(rs, 1, Len(rs) - 1)), rs[Len(rs)])

aggregates(ds, m) ==
  IF Len(ds) = 0 THEN <<>>
  ELSE LET groups == GroupAll(<<>>, NormalizeAll(ds), m)
       IN  SortByDate([i \in 1..Len(groups) |-> AggregateGroup(groups[i])])

-----------------------------------------------------------------------------
(* Callers of aggregates() *)

\* a rational number n / d in lowest terms, d > 0
Rat(n, d) ==
  LET g == GCD(IF n < 0 THEN 0 - n ELSE n, d)
  IN  [num |-> n \div g, den |-> d \div g]

\* no layout is being planned
LayoutIdle ==
  /\ layoutCfg = [visibleWidth |-> 800, margin |-> [left |-> 70, right |-> 10],
                  barMinWidth |-> 8]
  /\ barCount = 1
  /\ innerWidth = Rat(0, 1)
  /\ barStep = Rat(0, 1)
  /\ barWidth = Rat(0, 1)
  /\ layoutPc = "config"

\* createChart is not being called
ChartIdle ==
  /\ chartCfg = [renderType |-> "bar", chartType |-> "byDay"]
  /\ timeSeries = <<>>
  /\ chartData = <<>>
  /\ sharedAggregatedData = <<>>
  /\ chartResult = "pending"

\* no panel is being rendered
PanelIdle ==
  /\ cfg = [renderType |-> "bar", yAxisStartAtZero |-> TRUE, yAxisScale |-> "linear"]
  /\ aggregatedData = <<>>
  /\ minValue = Fin(0)
  /\ maxValue = Fin(0)
  /\ niceStep = Fin(0)
  /\ tickValues = <<>>
  /\ bars = <<>>
  /\ minorTicks = <<>>
  /\ panelPc = "build"

FormatIdle ==
  /\ fmtArgs = [value |-> [m |-> 0, e |-> 0], format |-> "none", decimals |-> 0,
                useThousandSeparator |-> FALSE]
  /\ fmtResult = <<>>
  /\ fmtPc = "call"

SeriesIdle ==
  /\ seriesConfig = <<>>
  /\ normalizedSeries = <<>>
  /\ seriesDataSets = <<>>
  /\ panelBarCount = 0
  /\ renderedPanels = <<>>
  /\ xAxisData = <<>>
  /\ elementsCreated = FALSE
  /\ seriesResult = "pending"

ScrollIdle ==
  /\ scrollLeft = [c \in {1, 2, 3} |-> 0]
  /\ scrollPending = {}
  /\ syncLock = FALSE
  /\ pendingTimers = 0
  /\ syncTimeoutPending = FALSE
  /\ lastScrolled = 0
  /\ scrollToEnd = FALSE

HoverIdle ==
  /\ barPositions = [p \in {1, 2, 3} |-> 1]
  /\ hoverZone = [panel |-> 0, index |-> 0]
  /\ hoverIndicator = [p \in {1, 2, 3} |-> [display |-> "none", index |-> 0]]
  /\ tooltipDisplay = "none"

MaxObs == 3

UtcOffsets == {-5, 9}

Engines == {"strict", "v8"}

\* YYYY-MM-DD as a caller writes it
IsoDate(y, m, d) == toISODate(DateAt(DaysFromCivil(y, m, d) * 24))

\* the observations a caller passes; values in thousandths
Observations ==
  { [date |-> IsoDate(2025, 1, 1),   value |-> Fin(10000)],
    [date |-> IsoDate(2025, 1, 15),  value |-> Fin(20000)],
    [date |-> IsoDate(2025, 2, 1),   value |-> Fin(30000)],
    [date |-> IsoDate(2024, 12, 31), value |-> Fin(10005)],
    [date |-> IsoDate(2023, 1, 1),   value |-> Fin(20000)],
    [date |-> IsoDate(2023, 1, 9),   value |-> Fin(10000)],
    [date |-> IsoDate(2025, 1, 15),  value |-> PosInfinity],
    [date |-> IsoDate(2025, 2, 1),   value |-> NaN],
    [date |-> <<"x">>,               value |-> Fin(30000)] }

AggInit ==
  /\ tz \in UtcOffsets
  /\ engine \in Engines
  /\ mode \in Modes
  /\ data = <<>>
  /\ result = <<>>
  /\ result2 = <<>>
  /\ pc = "build"
  /\ PanelIdle
  /\ LayoutIdle
  /\ ChartIdle
  /\ FormatIdle
  /\ SeriesIdle
  /\ ScrollIdle
  /\ HoverIdle

\* the caller adds an observation to the array it will pass
AddObservation ==
  /\ pc = "build"
  /\ Len(data) < MaxObs
  /\ \E o \in Observations : data' = Append(data, o)
  /\ UNCHANGED <<tz, engine, mode, result, result2, pc, nonAggVars>>

\* result = aggregates(data, mode)
CallAggregates ==
  /\ pc = "build"
  /\ result' = aggregates(data, mode)
  /\ pc' = "done"
  /\ UNCHANGED <<tz, engine, mode, data, result2, nonAggVars>>

\* result2 = aggregates(result, mode): the records are passed back in
Reaggregate ==
  /\ pc = "done"
  /\ result2' = aggregates(result, mode)
  /\ pc' = "redone"
  /\ UNCHANGED <<tz, engine, mode, data, result, nonAggVars>>

AggNext == AddObservation \/ CallAggregates \/ Reaggregate

SpecAgg == AggInit /\ [][AggNext]_vars

-----------------------------------------------------------------------------
(* Properties of aggregates() *)

\* a valid observation: the timestamp parses and the value is finite
Valid(o) == DateParse(o.date).valid /\ isFinite(o.value)

\* the observations of data that the normalisation keeps
Kept == {j \in 1..Len(data) : Keep(Normalize(data[j]))}

\* the bucket key of observation j of data
KeyOf(j) == getGroupKey(DateParse(data[j].date), mode)

\* a is before b in string order, a # b
StrictlyBefore(a, b) ==
  \E k \in 0..Len(a) :
    /\ k <= Len(b)
    /\ \A i \in 1..k : a[i] = b[i]
    /\ \/ (k = Len(a) /\ k < Len(b))
       \/ (k < Len(a) /\ k < Len(b) /\ CharCode(a[k + 1]) < CharCode(b[k + 1]))

\* ISO-8601 week key of a day number: the year and the week of the Thursday
\* of the day's Monday-start week
IsoWeekKey(day) ==
  LET thursday == day - ((day + 3) % 7) + 3
      isoYear  == CivilFromDays(thursday).y
      week     == (thursday - DaysFromCivil(isoYear, 1, 1)) \div 7 + 1
  IN  JsString(isoYear) \o <<"-", "W">> \o padStart(JsString(week), 2)

\* C1: in byWeek mode every kept observation is in the bucket whose key is
\* the ISO week date YYYY-Www of its calendar date, YYYY being the ISO year
\* (2024-12-31 is in 2025-W01, 2023-01-01 in 2022-W52).
C1_WeekKeyIsIsoWeekDate ==
  (pc # "build" /\ mode = "byWeek") =>
    \A j \in Kept :
      \E i \in 1..Len(result) :
        result[i].date = IsoWeekKey(LocalDay(DateParse(data[j].date)))

\* C2: the records returned have pairwise distinct bucket keys and are in
\* strictly ascending string order of the key, in every mode.
C2_KeysStrictlyAscending ==
  pc # "build" =>
    \A i, j \in 1..Len(result) :
      i < j => StrictlyBefore(result[i].date, result[j].date)

\* C2 witness: three observations given out of key order, two of them in
\* one bucket, have been aggregated into two records.
C2_Witness ==
  /\ pc = "done"
  /\ Len(data) = 3
  /\ Kept = {1, 2, 3}
  /\ Len(result) = 2
  /\ KeyOf(1) = result[2].date
  /\ KeyOf(2) = result[1].date
  /\ KeyOf(3) = result[2].date

RECURSIVE SumValues(_)
\* the sum of the (finite) values of the observations with the indices in S
SumValues(S) ==
  IF S = {} THEN 0
  ELSE LET j == CHOOSE x \in S : TRUE
       IN  data[j].value.n + SumValues(S \ {j})

\* C3: every record returned has value = the mean of the valid
\* observations of its bucket rounded to 2 decimals, highValue = their
\* maximum, lowValue = their minimum and count = their number.
C3_BucketStatistics ==
  pc # "build" =>
    \A i \in 1..Len(result) :
      LET r   == result[i]
          S   == {j \in 1..Len(data) : Valid(data[j]) /\ KeyOf(j) = r.date}
          n   == Cardinality(S)
          sum == SumValues(S)
      IN  /\ n >= 1
          /\ r.count = n
          /\ isFinite(r.value) /\ isFinite(r.highValue) /\ isFinite(r.lowValue)
          /\ r.value.n % 10 = 0
          /\ 2 * n * r.value.n <= 2 * sum + 10 * n
          /\ 2 * sum + 10 * n < 2 * n * (r.value.n + 10)
          /\ \E j \in S : data[j].value = r.highValue
          /\ \E j \in S : data[j].value = r.lowValue
          /\ \A j \in S : /\ data[j].value.n <= r.highValue.n
                          /\ data[j].value.n >= r.lowValue.n

RECURSIVE CountSum(_)
\* the sum of the counts of the records rs
CountSum(rs) == IF Len(rs) = 0 THEN 0 ELSE Head(rs).count + CountSum(Tail(rs))

\* C4: aggregates() drops exactly the observations whose timestamp does
\* not parse or whose value is not a finite number, and returns nothing
\* when no observation is valid.
C4_DropsExactlyInvalid ==
  pc # "build" =>
    /\ CountSum(result) = Cardinality({j \in 1..Len(data) : Valid(data[j])})
    /\ (\A j \in 1..Len(data) : ~Valid(data[j])) => result = <<>>

\* the input has one observation per bucket
OnePerBucket == \A i \in 1..Len(result) : result[i].count = 1

\* C5 as stated: on one-point-per-bucket input, aggregating the records
\* returned again in the same mode returns identical records.
C5_IdempotentEveryMode ==
  (pc = "redone" /\ OnePerBucket) => result2 = result

\* the values passed have at most two decimals
TwoDecimals == \A j \in Kept : isFinite(data[j].value) => data[j].value.n % 10 = 0

\* C5 amended: on one-point-per-bucket input whose values have at most two
\* decimals, aggregating the records returned again returns identical
\* records in byDay mode, and in byMonth and byYear mode when the UTC offset
\* of the environment is not negative.
C5_IdempotentDayMonthYear ==
  ( /\ pc = "redone"
    /\ OnePerBucket
    /\ TwoDecimals
    /\ \/ mode = "byDay"
       \/ (mode \in {"byMonth", "byYear"} /\ tz >= 0) ) => result2 = result

\* C5 witness: three observations in three day buckets were aggregated
\* twice, west of Greenwich.
C5_Witness ==
  /\ pc = "redone"
  /\ mode = "byDay"
  /\ tz < 0
  /\ OnePerBucket
  /\ TwoDecimals
  /\ Len(result) = 3
  /\ Len(result2) = 3

-----------------------------------------------------------------------------
(* renderChartPanel(): the y scale.  A finite number n stands for n/10. *)

\* the number x in tenths
Tenths(x) == 10 * x

RECURSIVE Pow10(_)
\* Math.pow(10, d) for an integer d >= 0
Pow10(d) == IF d <= 0 THEN 1 ELSE 10 * Pow10(d - 1)

\* a - b
JsSub(a, b) ==
  IF isFinite(a) /\ isFinite(b) THEN Fin(a.n - b.n)
  ELSE JsAdd(a, IF b.k = "inf" THEN NegInfinity
                ELSE IF b.k = "ninf" THEN PosInfinity ELSE b)

\* Math.floor(a / b) for finite a and b: a pure number
MathFloorDiv(a, b) ==
  IF b.n # 0 THEN [k |-> "num", n |-> a.n \div b.n]
  ELSE IF a.n > 0 THEN PosInfinity
  ELSE IF a.n < 0 THEN NegInfinity
  ELSE NaN

\* q * b for a pure number q and a finite b
JsMul(q, b) ==
  IF isNaN(q) THEN NaN
  ELSE IF isFinite(q) THEN Fin(q.n * b.n)
  ELSE IF b.n = 0 THEN NaN
  ELSE IF (q.k = "inf") = (b.n > 0) THEN PosInfinity
  ELSE NegInfinity

\* Math.round(a / b) for integers a >= 0, b > 0
MathRoundDiv(a, b) == (2 * a + b) \div (2 * b)

tickCount == 5

\* the nice numbers as the doc comment of niceNumberCeil lists them
niceNumbers_125 == <<1, 2, 5, 10>>

niceNumbers == <<1, 2, 4, 5, 6, 8, 10>>

RECURSIVE MagnitudeFrom(_, _)
\* the largest power of ten <= v, searched from the power of ten m <= v
MagnitudeFrom(v, m) == IF 10 * m <= v THEN MagnitudeFrom(v, 10 * m) ELSE m

RECURSIVE FirstNice(_, _, _)
\* the loop of niceNumberCeil: the first nice number n with v / mag <= n
FirstNice(v, mag, i) ==
  IF i > Len(niceNumbers) THEN 10
  ELSE IF v <= niceNumbers[i] * mag THEN niceNumbers[i]
  ELSE FirstNice(v, mag, i + 1)

niceNumberCeil(value) ==
  IF ~JsLess(Fin(0), value) THEN Fin(0)
  ELSE LET magnitude == MagnitudeFrom(value.n, 1)
       IN  Fin(FirstNice(value.n, magnitude, 1) * magnitude)

\* a slot of a values array that holds no value
Null == [k |-> "null", n |-> 0]

\* a property or an array element that does not exist
Undefined == [k |-> "undef", n |-> 0]

\* values.filter(v => v !== null && v !== undefined)
Present(values) == SelectSeq(values, LAMBDA v : v # Null)

RECURSIVE FlatPresent(_)
\* aggregatedData.flatMap(d => the present values of d)
FlatPresent(recs) ==
  IF Len(recs) = 0 THEN <<>> ELSE Present(Head(recs).values) \o FlatPresent(Tail(recs))

\* the stacked maximum taken like the staggered one
StackedSums_Single(recs) == FlatPresent(recs)

\* aggregatedData.map(d => the sum of the present values of d)
StackedSums(recs) ==
  [i \in 1..Len(recs) |-> SumFrom(Fin(0), Present(recs[i].values))]

\* minValue / maxValue of the data, lines 429-448
DataRange(c, recs) ==
  LET values == [i \in 1..Len(recs) |-> recs[i].value]
      lows   == [i \in 1..Len(recs) |-> recs[i].lowValue]
      highs  == [i \in 1..Len(recs) |-> recs[i].highValue]
      allValues == FlatPresent(recs)
      sums   == StackedSums(recs)
  IN  IF c.renderType = "high-low"
      THEN [min |-> MathMin(lows), max |-> MathMax(highs)]
      ELSE IF c.renderType = "staggered"
      THEN [min |-> IF c.yAxisStartAtZero THEN Fin(0) ELSE MathMin(allValues),
            max |-> MathMax(allValues)]
      ELSE IF c.renderType = "stacked"
      THEN [min |-> IF c.yAxisStartAtZero THEN Fin(0) ELSE MathMin(sums),
            max |-> MathMax(sums)]
      ELSE [min |-> IF c.yAxisStartAtZero THEN Fin(0) ELSE MathMin(values),
            max |-> MathMax(values)]

\* the five-tick loop: i < tickCount instead of i <= tickCount
LinearScale_FiveTicks(min0, max0) ==
  LET rawRange == JsSub(max0, min0)
      rawStep  == Fin(rawRange.n \div tickCount)
      step     == niceNumberCeil(rawStep)
      min1     == IF min0 # Fin(0) THEN JsMul(MathFloorDiv(min0, step), step) ELSE min0
      max1     == JsAdd(min1, Fin(tickCount * step.n))
  IN  [minValue   |-> min1,
       maxValue   |-> max1,
       niceStep   |-> step,
       tickValues |-> [i \in 1..tickCount |-> JsAdd(min1, Fin(step.n * (i - 1)))]]

\* the linear branch, lines 512-530
LinearScale(min0, max0) ==
  LET rawRange == JsSub(max0, min0)
      rawStep  == Fin(rawRange.n \div tickCount)
      step     == niceNumberCeil(rawStep)
      min1     == IF min0 # Fin(0) THEN JsMul(MathFloorDiv(min0, step), step) ELSE min0
      max1     == JsAdd(min1, Fin(tickCount * step.n))
  IN  [minValue   |-> min1,
       maxValue   |-> max1,
       niceStep   |-> step,
       tickValues |-> [i \in 1..(tickCount + 1) |-> JsAdd(min1, Fin(step.n * (i - 1)))]]

RECURSIVE FloorLog10From(_, _)
\* Math.floor(Math.log10(v)) for v >= 1, searched upwards from d
FloorLog10From(v, d) ==
  IF Tenths(Pow10(d + 1)) <= v THEN FloorLog10From(v, d + 1) ELSE d

RECURSIVE CeilLog10From(_, _)
\* Math.ceil(Math.log10(v)) for v >= 1, searched upwards from d
CeilLog10From(v, d) ==
  IF v <= Tenths(Pow10(d)) THEN d ELSE CeilLog10From(v, d + 1)

\* the clamp without the line that forces maxValue above minValue
LogClamp_NoForce(min0, max0) ==
  [min |-> JsMax2(Fin(Tenths(1)), min0), max |-> max0]

\* lines 455-457: minValue at least 1, maxValue above minValue
LogClamp(min0, max0) ==
  LET min1 == JsMax2(Fin(Tenths(1)), min0)
  IN  [min |-> min1,
       max |-> IF ~JsLess(min1, max0) THEN Fin(min1.n * 10) ELSE max0]

\* a step of one decade whatever the range
decadeStep_One(decadeRange) == 1

\* line 466: Math.max(1, Math.ceil(decadeRange / tickCount))
decadeStep(decadeRange) ==
  LET c == (decadeRange + tickCount - 1) \div tickCount
  IN  IF c < 1 THEN 1 ELSE c

RECURSIVE DecadeTicks(_, _, _)
\* lines 470-472: the powers of ten from decade to maxDecade by step
DecadeTicks(decade, maxDecade, step) ==
  IF decade > maxDecade THEN <<>>
  ELSE <<Fin(Tenths(Pow10(decade)))>> \o DecadeTicks(decade + step, maxDecade, step)

RECURSIVE FinerTicks(_, _, _)
\* lines 482-491: 1x, 2x and 5x of every decade, within the decade span
FinerTicks(decade, minDecade, maxDecade) ==
  IF decade > maxDecade THEN <<>>
  ELSE LET base   == Tenths(Pow10(decade))
           cands  == <<Fin(base * 1), Fin(base * 2), Fin(base * 5)>>
           inSpan == SelectSeq(cands, LAMBDA v :
                        /\ v.n >= Tenths(Pow10(minDecade))
                        /\ v.n <= Tenths(Pow10(maxDecade)))
       IN  inSpan \o FinerTicks(decade + 1, minDecade, maxDecade)

\* lines 493-501: at most tickCount + 1 of the finer ticks, evenly by index
SelectTicks(newTicks) ==
  IF Len(newTicks) > tickCount + 1
  THEN [i \in 1..(tickCount + 1) |->
          newTicks[MathRoundDiv((i - 1) * (Len(newTicks) - 1), tickCount) + 1]]
  ELSE newTicks

\* the log10 branch, lines 454-511
LogScale(min0, max0) ==
  LET clamped     == LogClamp(min0, max0)
      minDecade   == FloorLog10From(clamped.min.n, 0)
      maxDecade   == CeilLog10From(clamped.max.n, 0)
      decadeRange == maxDecade - minDecade
      ticks1      == DecadeTicks(minDecade, maxDecade, decadeStep(decadeRange))
      maxDecadeValue == Fin(Tenths(Pow10(maxDecade)))
      ticks2      == IF JsLess(ticks1[Len(ticks1)], maxDecadeValue)
                     THEN Append(ticks1, maxDecadeValue) ELSE ticks1
      ticks3      == IF Len(ticks2) < 3 /\ decadeRange >= 1
                     THEN SelectTicks(FinerTicks(minDecade, minDecade, maxDecade))
                     ELSE ticks2
      ticks4      == IF Len(ticks3) = 0
                     THEN <<Fin(Tenths(Pow10(minDecade))), maxDecadeValue>>
                     ELSE ticks3
  IN  [minValue   |-> MathMin(ticks4),
       maxValue   |-> MathMax(ticks4),
       niceStep   |-> Fin(0),
       tickValues |-> ticks4]

\* the y scale of a panel, lines 429-530
YScale(c, recs) ==
  LET r == DataRange(c, recs)
  IN  IF c.yAxisScale = "log10" THEN LogScale(r.min, r.max)
      ELSE LinearScale(r.min, r.max)

-----------------------------------------------------------------------------
(* renderChartPanel(): yScale, the pixel offset of a value.  An offset n   *)
(* stands for n/1000 pixels, rounded up to the next thousandth.            *)

\* cfg.innerHeight: createChart passes cfg.chartHeight, 200 by default
innerHeight == 200

RECURSIVE Decades(_)
\* Math.floor(Math.log10(w)) for an integer w >= 1
Decades(w) == IF w < 10 THEN 0 ELSE 1 + Decades(w \div 10)

\* Math.log10 of 1 .. 10 in thousandths
Log10Table == <<0, 301, 477, 602, 699, 778, 845, 903, 954, 1000>>

\* Math.log10(x) in thousandths, x in tenths: exact at m * 10^d for a digit m,
\* interpolated between two such points
MathLog10(x) ==
  IF isNaN(x) \/ x.k = "ninf" THEN NaN
  ELSE IF x.k = "inf" THEN PosInfinity
  ELSE IF x.n < 0 THEN NaN
  ELSE IF x.n = 0 THEN NegInfinity
  ELSE IF x.n < 10 THEN Fin(Log10Table[x.n] - 1000)
  ELSE LET d    == Decades(x.n \div 10)
           p    == Tenths(Pow10(d))
           m    == x.n \div p
           rest == x.n - m * p
           frac == IF p >= 1000 THEN rest \div (p \div 1000) ELSE (rest * 1000) \div p
       IN  Fin(1000 * d + Log10Table[m]
               + ((Log10Table[m + 1] - Log10Table[m]) * frac) \div 1000)

RECURSIVE DecimalsOf(_, _, _)
\* the first k decimals of r / b as an integer, for 0 <= r < b
DecimalsOf(r, b, k) ==
  IF k = 0 THEN 0
  ELSE ((10 * r) \div b) * Pow10(k - 1) + DecimalsOf((10 * r) % b, b, k - 1)

\* innerHeight - (a / b) * innerHeight for a and b in one unit
ScaleOffset(a, b) ==
  IF isNaN(a) \/ isNaN(b) THEN NaN
  ELSE IF ~isFinite(a)
       THEN IF ~isFinite(b) THEN NaN
            ELSE IF (a.k = "inf") = (b.n >= 0) THEN NegInfinity ELSE PosInfinity
  ELSE IF ~isFinite(b) THEN Fin(1000 * innerHeight)
  ELSE IF b.n = 0
       THEN IF a.n > 0 THEN NegInfinity
            ELSE IF a.n < 0 THEN PosInfinity
            ELSE NaN
  ELSE LET sa == IF b.n < 0 THEN 0 - a.n ELSE a.n
           sb == IF b.n < 0 THEN 0 - b.n ELSE b.n
           g  == GCD(IF sa < 0 THEN 0 - sa ELSE sa, sb)
           t  == (sa \div g) * innerHeight
           bb == sb \div g
       IN  Fin(1000 * innerHeight - (1000 * (t \div bb) + DecimalsOf(t % bb, bb, 3)))

\* yScale, lines 532-545, for the domain min .. max
yScale(useLogScale, min, max, value) ==
  IF useLogScale
  THEN LET safeValue == JsMax2(min, value)
           logMin    == MathLog10(min)
           logMax    == MathLog10(max)
           logValue  == MathLog10(safeValue)
       IN  ScaleOffset(JsSub(logValue, logMin), JsSub(logMax, logMin))
  ELSE ScaleOffset(JsSub(value, min), JsSub(max, min))

RECURSIVE StackedFrom(_, _, _)
\* the stacked branch, lines 901-917: cumulativeValue + val of every segment
StackedFrom(values, i, cumulativeValue) ==
  IF i > Len(values) THEN <<>>
  ELSE IF values[i] = Null \/ values[i] = Fin(0)
       THEN StackedFrom(values, i + 1, cumulativeValue)
  ELSE <<JsAdd(cumulativeValue, values[i])>>
       \o StackedFrom(values, i + 1, JsAdd(cumulativeValue, values[i]))

\* the values whose offsets are drawn for the record d, lines 769-953
DrawnValues(c, d) ==
  IF c.renderType = "high-low" THEN <<d.highValue, d.lowValue, d.value>>
  ELSE IF c.renderType = "staggered" THEN Present(d.values)
  ELSE IF c.renderType = "stacked" THEN StackedFrom(d.values, 1, Fin(0))
  ELSE <<d.value>>

\* the y offsets of the bars of the record d
DrawBars(c, min, max, d) ==
  LET vs == DrawnValues(c, d)
  IN  [j \in 1..Len(vs) |-> yScale(c.yAxisScale = "log10", min, max, vs[j])]

-----------------------------------------------------------------------------
(* renderChartPanel(): the minor ticks of a log axis, lines 588-650; the   *)
(* minor grid lines, lines 697-750, are found in the same way.             *)

RECURSIVE SortTicksInsert(_, _)
SortTicksInsert(ts, t) ==
  IF Len(ts) = 0 THEN <<t>>
  ELSE IF Head(ts).n <= t.n THEN <<Head(ts)>> \o SortTicksInsert(Tail(ts), t)
  ELSE <<t>> \o ts

RECURSIVE sortedTicksOf(_)
\* [...tickValues].sort((a, b) => a - b)
sortedTicksOf(ts) ==
  IF Len(ts) = 0 THEN <<>>
  ELSE SortTicksInsert(sortedTicksOf(SubSeq(ts, 1, Len(ts) - 1)), ts[Len(ts)])

\* Math.round(4 * (1 - position / Math.max(1, numIntervals - 1)))
getMaxIntermediatesForPosition(numIntervals, position) ==
  LET m == IF numIntervals - 1 > 1 THEN numIntervals - 1 ELSE 1
  IN  MathRoundDiv(4 * (m - position), m)

multipliers == <<2, 3, 4, 5, 6, 7, 8, 9>>

RECURSIVE allIntermediates(_, _, _, _, _, _)
\* the multiples of the decades lowerDecade .. upperDecade that lie strictly
\* between the two ticks and strictly inside the domain
allIntermediates(decade, upperDecade, lowerTick, upperTick, min, max) ==
  IF decade > upperDecade THEN <<>>
  ELSE LET baseValue == Tenths(Pow10(decade))
           values    == [m \in 1..Len(multipliers) |-> Fin(baseValue * multipliers[m])]
           inside    == SelectSeq(values, LAMBDA value :
                          /\ JsLess(lowerTick, value) /\ JsLess(value, upperTick)
                          /\ JsLess(min, value) /\ JsLess(value, max))
       IN  inside
           \o allIntermediates(decade + 1, upperDecade, lowerTick, upperTick, min, max)

\* the values taken when there are more of them than maxCount: the index of
\* the j-th is Math.round(j * (length - 1) / (maxCount - 1)); for maxCount = 1
\* that is Math.round(0 / 0) = NaN, and the element at NaN is undefined
selectedValues(all, maxCount) ==
  IF Len(all) > maxCount
  THEN [j \in 1..maxCount |->
          IF maxCount - 1 = 0 THEN Undefined
          ELSE all[MathRoundDiv((j - 1) * (Len(all) - 1), maxCount - 1) + 1]]
  ELSE all

\* innerHeight * 0.02, in thousandths of a pixel
minDistance == 20 * innerHeight

\* Math.abs(a - b) > minDistance
FartherThanMinDistance(a, b) ==
  LET d == JsSub(a, b)
  IN  IF isNaN(d) THEN FALSE
      ELSE IF ~isFinite(d) THEN TRUE
      ELSE (IF d.n < 0 THEN 0 - d.n ELSE d.n) > minDistance

\* the selected values that are drawn: those not within minDistance of a
\* major tick; undefined goes through Math.max and Math.log10 as NaN
drawnMinorTicks(min, max, sortedTicks, selected) ==
  SelectSeq(selected, LAMBDA value :
    LET y == yScale(TRUE, min, max, IF value = Undefined THEN NaN ELSE value)
    IN  \A t \in 1..Len(sortedTicks) :
          FartherThanMinDistance(y, yScale(TRUE, min, max, sortedTicks[t])))

\* one record for every interval between two major ticks, bottom first
MinorTicks(c, min, max, ticks) ==
  IF c.yAxisScale = "log10" /\ Len(ticks) > 1
  THEN LET sortedTicks  == sortedTicksOf(ticks)
           numIntervals == Len(sortedTicks) - 1
       IN  [i \in 1..numIntervals |->
              LET lowerTick == sortedTicks[i]
                  upperTick == sortedTicks[i + 1]
                  maxCount  == getMaxIntermediatesForPosition(numIntervals, i - 1)
                  all       == allIntermediates(Decades(lowerTick.n \div 10),
                                                Decades(upperTick.n \div 10),
                                                lowerTick, upperTick, min, max)
                  selected  == IF maxCount = 0 THEN <<>> ELSE selectedValues(all, maxCount)
              IN  [lowerTick |-> lowerTick, upperTick |-> upperTick,
                   maxCount |-> maxCount,
                   allIntermediates |-> IF maxCount = 0 THEN <<>> ELSE all,
                   selectedValues |-> selected,
                   drawn |-> drawnMinorTicks(min, max, sortedTicks, selected)]]
  ELSE <<>>

-----------------------------------------------------------------------------
(* Callers of renderChartPanel() *)

MaxRecords == 2

\* a record of a panel with the value v and the low / high values l, h
Rec(v, l, h) ==
  [value |-> Fin(Tenths(v)), lowValue |-> Fin(Tenths(l)), highValue |-> Fin(Tenths(h))]

\* the records a panel is given
Records ==
  { Rec(7, 5, 12), Rec(1, 1, 1), Rec(0, 0, 0), Rec(-3, -3, 0), Rec(5, 5, 5),
    Rec(19, 9, 19), Rec(100, 10, 100), Rec(1000000, 1000, 1000000),
    Rec(2000000, 1, 2000000) }

\* a record of a staggered / stacked panel: one slot per series
Multi(vs) == [values |-> vs]

\* the merged records of two series; no record is without a value
MultiRecords ==
  { Multi(<<Fin(Tenths(3)), Fin(Tenths(7))>>), Multi(<<Fin(Tenths(7)), Null>>),
    Multi(<<Null, Fin(Tenths(3))>>), Multi(<<Fin(Tenths(12)), Fin(Tenths(1))>>),
    Multi(<<Fin(Tenths(0)), Fin(Tenths(5))>>),
    Multi(<<Fin(Tenths(100)), Fin(Tenths(50))>>) }

\* the records a panel of the configuration c is given
PanelRecords(c) ==
  IF c.renderType \in {"staggered", "stacked"} THEN MultiRecords ELSE Records

\* aggregates() is not being called
AggIdle ==
  /\ tz = 0
  /\ engine = "strict"
  /\ mode = "byDay"
  /\ data = <<>>
  /\ result = <<>>
  /\ result2 = <<>>
  /\ pc = "build"

PanelInit ==
  /\ cfg \in [renderType : {"bar", "high-low", "staggered", "stacked"},
              yAxisStartAtZero : BOOLEAN,
              yAxisScale : {"linear", "log10"}]
  /\ aggregatedData = <<>>
  /\ minValue = Fin(0)
  /\ maxValue = Fin(0)
  /\ niceStep = Fin(0)
  /\ tickValues = <<>>
  /\ bars = <<>>
  /\ minorTicks = <<>>
  /\ panelPc = "build"
  /\ AggIdle
  /\ LayoutIdle
  /\ ChartIdle
  /\ FormatIdle
  /\ SeriesIdle
  /\ ScrollIdle
  /\ HoverIdle

\* createChart collects the records of the panel
AddRecord ==
  /\ panelPc = "build"
  /\ Len(aggregatedData) < MaxRecords
  /\ \E r \in PanelRecords(cfg) : aggregatedData' = Append(aggregatedData, r)
  /\ UNCHANGED <<cfg, minValue, maxValue, niceStep, tickValues, bars, minorTicks, panelPc,
                 nonPanelVars>>

\* renderChartPanel(cfg, aggregatedData, ...): the scale and the ticks
RenderChartPanel ==
  /\ panelPc = "build"
  /\ Len(aggregatedData) >= 1
  /\ LET y == YScale(cfg, aggregatedData)
     IN  /\ minValue' = y.minValue
         /\ maxValue' = y.maxValue
         /\ niceStep' = y.niceStep
         /\ tickValues' = y.tickValues
         /\ bars' = [i \in 1..Len(aggregatedData) |->
                       DrawBars(cfg, y.minValue, y.maxValue, aggregatedData[i])]
         /\ minorTicks' = MinorTicks(cfg, y.minValue, y.maxValue, y.tickValues)
  /\ panelPc' = "rendered"
  /\ UNCHANGED <<cfg, aggregatedData, nonPanelVars>>

PanelNext == AddRecord \/ RenderChartPanel

SpecPanel == PanelInit /\ [][PanelNext]_vars

-----------------------------------------------------------------------------
(* createChart(): the dimensions of the chart, lines 1706-1713.  Widths    *)
(* are rational numbers of pixels.                                         *)

RatSub(a, b) == Rat(a.num * b.den - b.num * a.den, a.den * b.den)

RatMul(a, b) == Rat(a.num * b.num, a.den * b.den)

\* a / b for b > 0
RatDiv(a, b) == Rat(a.num * b.den, a.den * b.num)

RatLess(a, b) == a.num * b.den < b.num * a.den

\* Math.max(a, b)
RatMax(a, b) == IF RatLess(a, b) THEN b ELSE a

\* const barPadding = 0.2
barPadding == Rat(1, 5)

\* the dimensions with minContentWidth = barCount * barMinWidth
Dimensions_NoPadding(c, count) ==
  LET minContentWidth == Rat(count * c.barMinWidth, 1)
      width == RatMax(Rat(c.visibleWidth - c.margin.left - c.margin.right, 1),
                      minContentWidth)
      step  == RatDiv(width, Rat(count, 1))
  IN  [innerWidth |-> width,
       barStep    |-> step,
       barWidth   |-> RatMax(Rat(1, 1), RatMul(step, RatSub(Rat(1, 1), barPadding)))]

\* the dimensions of a chart of count bars, lines 1707-1713
Dimensions(c, count) ==
  LET minContentWidth == RatDiv(Rat(count * c.barMinWidth, 1),
                                RatSub(Rat(1, 1), barPadding))
      width == RatMax(Rat(c.visibleWidth - c.margin.left - c.margin.right, 1),
                      minContentWidth)
      step  == RatDiv(width, Rat(count, 1))
  IN  [innerWidth |-> width,
       barStep    |-> step,
       barWidth   |-> RatMax(Rat(1, 1), RatMul(step, RatSub(Rat(1, 1), barPadding)))]

MaxBars == 12

\* the numbers of records laid out: a few, and a chart that must scroll
BarCounts == 1..MaxBars \cup {700}

LayoutInit ==
  /\ layoutCfg \in [visibleWidth : {100, 800},
                    margin : {[left |-> 70, right |-> 10], [left |-> 0, right |-> 0]},
                    barMinWidth : {1, 6, 8}]
  /\ barCount \in BarCounts
  /\ innerWidth = Rat(0, 1)
  /\ barStep = Rat(0, 1)
  /\ barWidth = Rat(0, 1)
  /\ layoutPc = "config"
  /\ AggIdle
  /\ PanelIdle
  /\ ChartIdle
  /\ FormatIdle
  /\ SeriesIdle
  /\ ScrollIdle
  /\ HoverIdle

\* createChart computes the dimensions for the records it has
PlanLayout ==
  /\ layoutPc = "config"
  /\ barCount >= 1
  /\ LET dim == Dimensions(layoutCfg, barCount)
     IN  /\ innerWidth' = dim.innerWidth
         /\ barStep' = dim.barStep
         /\ barWidth' = dim.barWidth
  /\ layoutPc' = "planned"
  /\ UNCHANGED <<layoutCfg, barCount, nonLayoutVars>>

LayoutNext == PlanLayout

SpecLayout == LayoutInit /\ [][LayoutNext]_vars

-----------------------------------------------------------------------------
(* createChart(): the merge of the series of a staggered / stacked chart   *)
(* and processData.  Values are in thousandths, as in aggregates().        *)

\* x || y gives y
Falsy(x) == x = Undefined \/ x = Null \/ x = Fin(0) \/ isNaN(x)

\* new Date(d.date) is Invalid Date: toISOString() throws a RangeError
ToISOStringThrows(d) == ~DateParse(d.date).valid

\* new Date(d.date).toISOString().split('T')[0]
dateStr(d) == toISODate(DateParse(d.date))

\* new Array(seriesCount).fill(0)
EmptySlots_Zero(seriesCount) == [i \in 1..seriesCount |-> Fin(0)]

\* new Array(seriesCount).fill(null)
EmptySlots(seriesCount) == [i \in 1..seriesCount |-> Null]

\* dateValueMap after the entry of key is created if new and its slot
\* seriesIdx is set; the Map is the sequence of its entries as inserted
MapPut(map, key, seriesIdx, value, seriesCount) ==
  IF \E k \in 1..Len(map) : map[k].date = key
  THEN [k \in 1..Len(map) |->
          IF map[k].date = key
          THEN [map[k] EXCEPT !.values[seriesIdx] = value]
          ELSE map[k]]
  ELSE Append(map, [date   |-> key,
                    values |-> [EmptySlots(seriesCount) EXCEPT ![seriesIdx] = value]])

RECURSIVE MergeSeries(_, _, _, _)
\* seriesData.forEach(d => ...), lines 1571-1583
MergeSeries(map, seriesData, seriesIdx, seriesCount) ==
  IF Len(seriesData) = 0 THEN map
  ELSE LET d == Head(seriesData)
       IN  MergeSeries(MapPut(map, dateStr(d), seriesIdx, d.value, seriesCount),
                       Tail(seriesData), seriesIdx, seriesCount)

RECURSIVE MergeFrom(_, _, _)
\* cfg.timeSeries.forEach((s, seriesIdx) => ...), lines 1569-1584
MergeFrom(map, ts, seriesIdx) ==
  IF seriesIdx > Len(ts) THEN map
  ELSE MergeFrom(MergeSeries(map, ts[seriesIdx], seriesIdx, Len(ts)), ts, seriesIdx + 1)

\* the merge reaches an observation whose date does not parse
MergeThrows(ts) ==
  \E i \in 1..Len(ts) : \E j \in 1..Len(ts[i]) : ToISOStringThrows(ts[i][j])

\* chartData of a staggered / stacked chart, lines 1565-1586
MergeTimeSeries(ts) == SortByDate(MergeFrom(<<>>, ts, 1))

\* the string 'Invalid Date'
InvalidDateString == <<"I", "n", "v", "a", "l", "i", "d", " ", "D", "a", "t", "e">>

\* processData, the staggered / stacked branch, lines 1651-1656
ProcessMulti(rawData) ==
  SelectSeq([i \in 1..Len(rawData) |->
               [date |-> dateStr(rawData[i]), values |-> rawData[i].values]],
            LAMBDA d : d.date # InvalidDateString)

\* processData, rawData.map(...), lines 1658-1663
NormalizeChart(d) ==
  [date |-> DateParse(d.date), value |-> d.value,
   highValue |-> d.highValue, lowValue |-> d.lowValue]

\* processData, the records of chartType 'byDay', lines 1672-1679
Passthrough(normalized) ==
  [i \in 1..Len(normalized) |->
     LET d == normalized[i]
     IN  [date      |-> toISODate(d.date),
          value     |-> d.value,
          highValue |-> IF Falsy(d.highValue) THEN d.value ELSE d.highValue,
          lowValue  |-> IF Falsy(d.lowValue) THEN d.value ELSE d.lowValue,
          count     |-> 1]]

\* processData(rawData, seriesCfg), lines 1649-1681.  aggregates() leaves the
\* Date objects and numbers of normalized as they are, so it is given rawData
processData(rawData, c) ==
  IF c.renderType \in {"staggered", "stacked"} THEN ProcessMulti(rawData)
  ELSE LET normalized ==
             SelectSeq([i \in 1..Len(rawData) |-> NormalizeChart(rawData[i])], Keep)
       IN  IF Len(normalized) = 0 THEN <<>>
           ELSE IF c.chartType # "byDay" THEN aggregates(rawData, c.chartType)
           ELSE Passthrough(normalized)

-----------------------------------------------------------------------------
(* Callers of createChart() *)

MaxPoints == 5

\* an observation of a series
Obs(date, value, highValue, lowValue) ==
  [date |-> date, value |-> value, highValue |-> highValue, lowValue |-> lowValue]

\* the observations of the series of a staggered / stacked chart
MultiPoints ==
  { Obs(IsoDate(2025, 1, 1), Fin(10000), Undefined, Undefined),
    Obs(IsoDate(2025, 1, 2), Fin(20000), Undefined, Undefined),
    Obs(IsoDate(2025, 1, 3), Fin(0), Undefined, Undefined),
    Obs(<<"x">>, Fin(5000), Undefined, Undefined) }

\* the observations of the series of a bar chart
BarPoints ==
  { Obs(IsoDate(2025, 1, 2), Fin(5000), Undefined, Undefined),
    Obs(IsoDate(2025, 1, 1), Fin(5000), Fin(9000), Fin(0)),
    Obs(IsoDate(2025, 2, 3), Fin(7000), Fin(8000), Fin(6000)),
    Obs(<<"x">>, Fin(1000), Undefined, Undefined),
    Obs(IsoDate(2025, 1, 1), NaN, Undefined, Undefined) }

\* the chart is staggered or stacked
isStaggeredOrStacked == chartCfg.renderType \in {"staggered", "stacked"}

\* a bar chart of one series or a staggered / stacked chart of two.  The
\* strings of the observations are ISO dates or no dates in every engine;
\* the staggered / stacked path reads dates in UTC only (toISOString)
ChartInit ==
  /\ chartCfg \in [renderType : {"bar"}, chartType : {"byDay", "byMonth"}]
                 \cup [renderType : {"staggered", "stacked"}, chartType : {"byDay"}]
  /\ tz \in (IF isStaggeredOrStacked THEN {0} ELSE UtcOffsets)
  /\ engine = "strict"
  /\ mode = "byDay"
  /\ data = <<>>
  /\ result = <<>>
  /\ result2 = <<>>
  /\ pc = "build"
  /\ timeSeries = IF isStaggeredOrStacked THEN << <<>>, <<>> >> ELSE << <<>> >>
  /\ chartData = <<>>
  /\ sharedAggregatedData = <<>>
  /\ chartResult = "pending"
  /\ PanelIdle
  /\ LayoutIdle
  /\ FormatIdle
  /\ SeriesIdle
  /\ ScrollIdle
  /\ HoverIdle

\* the number of observations in all series
RECURSIVE PointCount(_)
PointCount(ts) == IF Len(ts) = 0 THEN 0 ELSE Len(Head(ts)) + PointCount(Tail(ts))

\* the caller adds an observation to the data of a series
AddPoint ==
  /\ chartResult = "pending"
  /\ PointCount(timeSeries) < MaxPoints
  /\ \E s \in 1..Len(timeSeries) :
       \E d \in (IF isStaggeredOrStacked THEN MultiPoints ELSE BarPoints) :
         timeSeries' = [timeSeries EXCEPT ![s] = Append(@, d)]
  /\ UNCHANGED <<chartCfg, chartData, sharedAggregatedData, chartResult, nonChartVars>>

\* createChart(config): the series normalized, merged and processed; the
\* result is the chart, null (no data) or the exception thrown
CreateChart ==
  /\ chartResult = "pending"
  /\ IF isStaggeredOrStacked /\ MergeThrows(timeSeries)
     THEN /\ chartData' = <<>>
          /\ sharedAggregatedData' = <<>>
          /\ chartResult' = "RangeError"
     ELSE LET normalizedData ==
                IF isStaggeredOrStacked THEN MergeTimeSeries(timeSeries)
                ELSE timeSeries[1]
              aggregated == processData(normalizedData, chartCfg)
          IN  /\ chartData' = normalizedData
              /\ sharedAggregatedData' =
                    IF Len(normalizedData) = 0 THEN <<>> ELSE aggregated
              /\ chartResult' =
                    IF Len(normalizedData) = 0 \/ Len(aggregated) = 0
                    THEN "null" ELSE "chart"
  /\ UNCHANGED <<chartCfg, timeSeries, nonChartVars>>

ChartNext == AddPoint \/ CreateChart

SpecChart == ChartInit /\ [][ChartNext]_vars

-----------------------------------------------------------------------------
(* createChart(): the panels of a chart whose cfg.renderType is not        *)
(* staggered or stacked, lines 1605-1802.  An entry of cfg.timeSeries is   *)
(* [given, data, renderType]: given tells that the entry has a data        *)
(* property, and the renderType "undefined" that it has no renderType.      *)

\* the renderType of an entry without one
NoRenderType == "undefined"

\* s.data && s.data.length > 0
HasData(s) == s.given /\ Len(s.data) > 0

\* lines 1608-1609: some entry has a renderType, or every entry has data or
\* a renderType (an empty array is truthy)
isMultiPanelConfig(ts) ==
  \/ \E i \in 1..Len(ts) : ts[i].renderType # NoRenderType
  \/ \A i \in 1..Len(ts) : ts[i].given \/ ts[i].renderType # NoRenderType

\* lines 1614-1615: the data of the first entry that has data, or []
sharedDataOf(ts) ==
  IF \E i \in 1..Len(ts) : HasData(ts[i])
  THEN ts[CHOOSE i \in 1..Len(ts) :
              HasData(ts[i]) /\ \A j \in 1..(i - 1) : ~HasData(ts[j])].data
  ELSE <<>>

\* lines 1605-1634: normalizedSeries for a cfg.timeSeries with entries
NormalizeSeries(ts) ==
  IF isMultiPanelConfig(ts)
  THEN [i \in 1..Len(ts) |->
          [data       |-> IF ts[i].given THEN ts[i].data ELSE sharedDataOf(ts),
           renderType |-> IF ts[i].renderType # NoRenderType THEN ts[i].renderType
                          ELSE "bar"]]
  ELSE <<>>

\* lines 1684-1696: processData of every normalized entry; chartType 'byDay'
ProcessSeries(ns) ==
  [i \in 1..Len(ns) |->
     processData(ns[i].data, [renderType |-> ns[i].renderType, chartType |-> "byDay"])]

-----------------------------------------------------------------------------
(* Callers of createChart() with panels *)

MaxSeries == 2

\* a valid observation of the day d of January 2025
DayObs(d, value) == Obs(IsoDate(2025, 1, d), Fin(value), Undefined, Undefined)

\* the data arrays an entry is given: an empty one, days 1-2, days 2-3, day
\* 1 only, and one observation whose value is no number
SeriesData ==
  { <<>>,
    <<DayObs(1, 10000), DayObs(2, 20000)>>,
    <<DayObs(2, 30000), DayObs(3, 40000)>>,
    <<DayObs(1, 50000)>>,
    <<Obs(IsoDate(2025, 1, 1), NaN, Undefined, Undefined)>> }

\* the entries of timeSeries: with a data array or without one, with a
\* renderType or without one
SeriesEntries ==
  [given : {TRUE}, data : SeriesData, renderType : {NoRenderType, "bar", "high-low"}]
  \cup [given : {FALSE}, data : {<<>>}, renderType : {NoRenderType, "bar", "high-low"}]

SeriesInit ==
  /\ seriesConfig = <<>>
  /\ normalizedSeries = <<>>
  /\ seriesDataSets = <<>>
  /\ panelBarCount = 0
  /\ renderedPanels = <<>>
  /\ xAxisData = <<>>
  /\ elementsCreated = FALSE
  /\ seriesResult = "pending"
  /\ AggIdle
  /\ PanelIdle
  /\ LayoutIdle
  /\ ChartIdle
  /\ FormatIdle
  /\ ScrollIdle
  /\ HoverIdle

\* the caller adds an entry to timeSeries
AddSeries ==
  /\ seriesResult = "pending"
  /\ Len(seriesConfig) < MaxSeries
  /\ \E s \in SeriesEntries : seriesConfig' = Append(seriesConfig, s)
  /\ UNCHANGED <<normalizedSeries, seriesDataSets, panelBarCount, renderedPanels,
                 xAxisData, elementsCreated, seriesResult, nonSeriesVars>>

\* lines 1642-1802 for the normalized entries ns and their record sets:
\* null without data in the first entry (line 1643) or without records of
\* it (line 1699); else the layout, the tooltip, the container, one call of
\* renderChartPanel per entry and the x-axis
PanelsFor(ns, sets) ==
  IF Len(ns) = 0 \/ Len(ns[1].data) = 0
  THEN [normalizedSeries |-> ns, seriesDataSets |-> <<>>, panelBarCount |-> 0,
        elementsCreated |-> FALSE, renderedPanels |-> <<>>, xAxisData |-> <<>>,
        seriesResult |-> "null"]
  ELSE IF Len(sets[1]) = 0
  THEN [normalizedSeries |-> ns, seriesDataSets |-> sets, panelBarCount |-> 0,
        elementsCreated |-> FALSE, renderedPanels |-> <<>>, xAxisData |-> <<>>,
        seriesResult |-> "null"]
  ELSE [normalizedSeries |-> ns, seriesDataSets |-> sets,
        panelBarCount |-> Len(sets[1]),
        elementsCreated |-> TRUE,
        renderedPanels |-> [i \in 1..Len(ns) |->
                              [renderType |-> ns[i].renderType, panelData |-> sets[i]]],
        xAxisData |-> sets[1],
        seriesResult |-> "chart"]

\* what createChart leaves behind
SetPanels(c) ==
  /\ normalizedSeries' = c.normalizedSeries
  /\ seriesDataSets' = c.seriesDataSets
  /\ panelBarCount' = c.panelBarCount
  /\ elementsCreated' = c.elementsCreated
  /\ renderedPanels' = c.renderedPanels
  /\ xAxisData' = c.xAxisData
  /\ seriesResult' = c.seriesResult

\* createChart(config): null without timeSeries (line 1637), else as the
\* normalized entries say
CreatePanels ==
  /\ seriesResult = "pending"
  /\ SetPanels(PanelsFor(NormalizeSeries(seriesConfig),
                         ProcessSeries(NormalizeSeries(seriesConfig))))
  /\ UNCHANGED <<seriesConfig, nonSeriesVars>>

SeriesNext == AddSeries \/ CreatePanels

SpecSeries == SeriesInit /\ [][SeriesNext]_vars

-----------------------------------------------------------------------------
(* createChart(): the synchronized scrolling, lines 1887-1969.  A scroll    *)
(* event is queued for a container whenever its scrollLeft changes, by the *)
(* user or by an assignment, and dispatched later; the events of one       *)
(* container are coalesced.                                                *)

\* the scroll containers of two panels and of the x-axis
allScrollContainers == {1, 2, 3}

\* the handler ignores the lock
syncScroll_Unlocked(sl, target, lock) == [c \in allScrollContainers |-> sl[target]]

\* lines 1934-1947: the scrollLeft of every container after the handler ran
\* for an event of target
syncScroll(sl, target, lock) ==
  IF lock THEN sl ELSE [c \in allScrollContainers |-> sl[target]]

\* the containers whose scrollLeft the step changes get a scroll event
Changed(old, new) == {c \in allScrollContainers : old[c] # new[c]}

-----------------------------------------------------------------------------
(* The user, the event loop and the timers of the scroll sync *)

\* scrollWidth - clientWidth of the containers
MaxScroll == 2

ScrollInit ==
  /\ scrollLeft = [c \in allScrollContainers |-> 0]
  /\ scrollPending = {}
  /\ syncLock = FALSE
  /\ pendingTimers = 0
  /\ syncTimeoutPending = FALSE
  /\ lastScrolled = 0
  /\ scrollToEnd \in BOOLEAN
  /\ AggIdle
  /\ PanelIdle
  /\ LayoutIdle
  /\ ChartIdle
  /\ FormatIdle
  /\ SeriesIdle
  /\ HoverIdle

\* the user scrolls the container c to the position x
UserScroll ==
  /\ \E c \in allScrollContainers : \E x \in 0..MaxScroll :
       /\ x # scrollLeft[c]
       /\ scrollLeft' = [scrollLeft EXCEPT ![c] = x]
       /\ scrollPending' = scrollPending \cup {c}
       /\ lastScrolled' = c
  /\ UNCHANGED <<syncLock, pendingTimers, syncTimeoutPending, scrollToEnd, nonScrollVars>>

\* lines 1961-1969: the animation frame of cfg.scrollToEnd
ScrollToEnd ==
  /\ scrollToEnd
  /\ scrollToEnd' = FALSE
  /\ scrollLeft' = [c \in allScrollContainers |-> MaxScroll]
  /\ scrollPending' = scrollPending \cup Changed(scrollLeft, scrollLeft')
  /\ UNCHANGED <<syncLock, pendingTimers, syncTimeoutPending, lastScrolled, nonScrollVars>>

\* lines 1933-1957: the scroll listener of the container c runs
OnScroll(c) ==
  /\ c \in scrollPending
  /\ scrollLeft' = syncScroll(scrollLeft, c, syncLock)
  /\ scrollPending' = (scrollPending \ {c}) \cup Changed(scrollLeft, scrollLeft')
  /\ IF syncLock
     THEN UNCHANGED <<syncLock, pendingTimers, syncTimeoutPending>>
     ELSE /\ syncLock' = TRUE
          \* clearTimeout(syncTimeout), then setTimeout
          /\ pendingTimers' = pendingTimers - (IF syncTimeoutPending THEN 1 ELSE 0) + 1
          /\ syncTimeoutPending' = TRUE
  /\ UNCHANGED <<lastScrolled, scrollToEnd, nonScrollVars>>

\* the event loop dispatches a queued scroll event
DispatchScroll == \E c \in allScrollContainers : OnScroll(c)

\* lines 1950-1952: a release timer fires, the one syncTimeout names or an
\* earlier one that was not cleared
ReleaseTimer ==
  /\ pendingTimers > 0
  /\ \E named \in {b \in BOOLEAN : IF b THEN syncTimeoutPending
                                  ELSE pendingTimers > (IF syncTimeoutPending THEN 1 ELSE 0)} :
       syncTimeoutPending' = (syncTimeoutPending /\ ~named)
  /\ pendingTimers' = pendingTimers - 1
  /\ syncLock' = FALSE
  /\ UNCHANGED <<scrollLeft, scrollPending, lastScrolled, scrollToEnd, nonScrollVars>>

ScrollNext == UserScroll \/ ScrollToEnd \/ DispatchScroll \/ ReleaseTimer

SpecScroll == ScrollInit /\ [][ScrollNext]_vars

\* a timer that was set fires after its delay, and a queued scroll event is
\* dispatched; the user may stop scrolling at any time
SpecScrollLive ==
  /\ ScrollInit /\ [][ScrollNext]_vars
  /\ WF_vars(ReleaseTimer)
  /\ WF_vars(DispatchScroll)

-----------------------------------------------------------------------------
(* createChart(): the synchronized hover of a chart of several panels,     *)
(* lines 1816-1885, with showHover and hideHover of renderChartPanel,      *)
(* lines 1034-1045.  Bars and hover zones are counted from 1.              *)

\* the panels of the chart
chartRows == {1, 2, 3}

\* lines 1034-1042: showHover(index, barCenterX) of a panel of count bars
showHover(ind, count, index) ==
  IF index > count THEN ind ELSE [display |-> "block", index |-> index]

\* lines 1043-1045: hideHover()
hideHover(ind) == [ind EXCEPT !.display = "none"]

-----------------------------------------------------------------------------
(* The pointer over the hover zones *)

MaxZones == 3

HoverInit ==
  /\ barPositions \in [chartRows -> 1..MaxZones]
  /\ hoverZone = [panel |-> 0, index |-> 0]
  /\ hoverIndicator = [p \in chartRows |-> [display |-> "none", index |-> 0]]
  /\ tooltipDisplay = "none"
  /\ AggIdle
  /\ PanelIdle
  /\ LayoutIdle
  /\ ChartIdle
  /\ FormatIdle
  /\ SeriesIdle
  /\ ScrollIdle

\* lines 1847-1866: the pointer enters the hover zone i of the panel p
MouseEnter ==
  /\ hoverZone.panel = 0
  /\ \E p \in chartRows : \E i \in 1..barPositions[p] :
       /\ hoverZone' = [panel |-> p, index |-> i]
       /\ hoverIndicator' = [q \in chartRows |->
                               showHover(hoverIndicator[q], barPositions[q], i)]
  /\ tooltipDisplay' = "block"
  /\ UNCHANGED <<barPositions, nonHoverVars>>

\* lines 1872-1878: the pointer leaves the hover zone it is in
MouseLeave ==
  /\ hoverZone.panel # 0
  /\ hoverZone' = [panel |-> 0, index |-> 0]
  /\ hoverIndicator' = [q \in chartRows |-> hideHover(hoverIndicator[q])]
  /\ tooltipDisplay' = "none"
  /\ UNCHANGED <<barPositions, nonHoverVars>>

HoverNext == MouseEnter \/ MouseLeave

SpecHover == HoverInit /\ [][HoverNext]_vars

-----------------------------------------------------------------------------
(* formatNumber(value, format, decimals, useThousandSeparator), lines     *)
(* 166-229.  The value is a decimal number [m, e], m * 10^e, so that the   *)
(* division by 1e3, 1e6 or 1e9 and toFixed are exact.  The percent         *)
(* patterns of format are not modelled.                                    *)

Dec(m, e) == [m |-> m, e |-> e]

Abs(n) == IF n < 0 THEN 0 - n ELSE n

RECURSIVE ShiftDown(_, _)
\* Math.floor(m / 10^s) for m >= 0
ShiftDown(m, s) == IF s = 0 THEN m ELSE ShiftDown(m \div 10, s - 1)

\* the integer nearest to m / 10^s for m >= 0, the larger one at a tie
RoundShift(m, s) == IF s = 0 THEN m ELSE (ShiftDown(m, s - 1) + 5) \div 10

\* m / 10^s lies halfway between two integers
IsTie(m, s) == s >= 1 /\ ShiftDown(m, s - 1) % 10 = 5 /\ ShiftDown(m, s - 1) * Pow10(s - 1) = m

\* x >= 10^p for the decimal x >= 0
AtLeastPow10(x, p) == ShiftDown(x.m, IF p > x.e THEN p - x.e ELSE 0) >= 1

\* the integer nearest to x * 10^d, the larger one at a tie, for x >= 0
ScaledRound(x, d) ==
  IF x.e + d >= 0 THEN x.m * Pow10(x.e + d) ELSE RoundShift(x.m, 0 - (x.e + d))

\* x.toFixed(decimals) for x >= 0
toFixed(x, decimals) ==
  LET digits == padStart(JsString(ScaledRound(x, decimals)), decimals + 1)
      whole  == Len(digits) - decimals
  IN  IF decimals = 0 THEN digits
      ELSE SubSeq(digits, 1, whole) \o <<".">> \o SubSeq(digits, whole + 1, Len(digits))

\* String(Math.round(x)): a tie goes to the larger integer, -0 prints as 0
StringOfMathRound(x) ==
  LET s == IF x.e < 0 THEN 0 - x.e ELSE 0
      a == Abs(x.m) * Pow10(IF x.e > 0 THEN x.e ELSE 0)
      r == IF x.m < 0 /\ IsTie(a, s) THEN RoundShift(a, s) - 1 ELSE RoundShift(a, s)
  IN  IF x.m < 0 /\ r > 0 THEN <<"-">> \o JsString(r) ELSE JsString(r)

\* s matches /^\.?0+$/
IsOptionalDotAndZeros(s) ==
  LET zs == IF Len(s) >= 1 /\ s[1] = "." THEN Tail(s) ELSE s
  IN  Len(zs) >= 1 /\ \A i \in 1..Len(zs) : zs[i] = "0"

RECURSIVE ReplaceFrom(_, _)
\* s.replace(/\.?0+$/, ''), the match searched from the index i on
ReplaceFrom(s, i) ==
  IF i > Len(s) THEN s
  ELSE IF IsOptionalDotAndZeros(SubSeq(s, i, Len(s))) THEN SubSeq(s, 1, i - 1)
  ELSE ReplaceFrom(s, i + 1)

\* s.replace(/\.?0+$/, '')
replaceTrailingZeros(s) == ReplaceFrom(s, 1)

IsDigit(c) == \E i \in 1..Len(DigitChars) : DigitChars[i] = c

RECURSIVE DotIndex(_, _)
\* the index of the first "." of s from i on, Len(s) + 1 without one
DotIndex(s, i) == IF i > Len(s) \/ s[i] = "." THEN i ELSE DotIndex(s, i + 1)

RECURSIVE WithCommas(_, _)
\* part.replace(/\B(?=(\d{3})+(?!\d))/g, ','): a comma after the i-th
\* character when both neighbours are digits and the digits that follow
\* count a multiple of three
WithCommas(part, i) ==
  IF i > Len(part) THEN <<>>
  ELSE <<part[i]>>
       \o (IF i < Len(part) /\ IsDigit(part[i]) /\ (Len(part) - i) % 3 = 0
           THEN <<",">> ELSE <<>>)
       \o WithCommas(part, i + 1)

\* lines 152-156: the separators go into the part before the first "."
addThousandSeparators(numStr) ==
  LET dot == DotIndex(numStr, 1)
  IN  WithCommas(SubSeq(numStr, 1, dot - 1), 1) \o SubSeq(numStr, dot, Len(numStr))

\* lines 195-218: the suffix and the decimal exponent of the divisor
SuffixFor(absValue, format) ==
  IF format = "auto"
  THEN IF AtLeastPow10(absValue, 9) THEN [suffix |-> <<"B">>, divisor |-> 9]
       ELSE IF AtLeastPow10(absValue, 6) THEN [suffix |-> <<"M">>, divisor |-> 6]
       ELSE IF AtLeastPow10(absValue, 3) THEN [suffix |-> <<"K">>, divisor |-> 3]
       ELSE [suffix |-> <<>>, divisor |-> 0]
  ELSE IF format = "B" THEN [suffix |-> <<"B">>, divisor |-> 9]
  ELSE IF format = "M" THEN [suffix |-> <<"M">>, divisor |-> 6]
  ELSE IF format = "K" THEN [suffix |-> <<"K">>, divisor |-> 3]
  ELSE [suffix |-> <<>>, divisor |-> 0]

formatNumber(value, format, decimals, useThousandSeparator) ==
  IF value.m = 0 THEN <<"0">>
  ELSE IF format = "none"
  THEN LET rounded == StringOfMathRound(value)
       IN  IF useThousandSeparator THEN addThousandSeparators(rounded) ELSE rounded
  ELSE LET absValue == Dec(Abs(value.m), value.e)
           sign     == IF value.m < 0 THEN <<"-">> ELSE <<>>
           sd       == SuffixFor(absValue, format)
       IN  IF sd.divisor = 0
           THEN LET numStr == replaceTrailingZeros(toFixed(absValue, decimals))
                IN  sign \o (IF useThousandSeparator THEN addThousandSeparators(numStr)
                             ELSE numStr)
           ELSE LET formatted == toFixed(Dec(absValue.m, absValue.e - sd.divisor), decimals)
                    cleaned   == replaceTrailingZeros(formatted)
                IN  sign \o cleaned \o sd.suffix

-----------------------------------------------------------------------------
(* Callers of formatNumber() *)

MaxDecimals == 2

\* the values a caller formats
FormatValues ==
  { Dec(0, 0), Dec(4, -1), Dec(15, -1), Dec(-15, -1), Dec(12, 1), Dec(-12, 1),
    Dec(105, 1), Dec(1234567, -3), Dec(25, 2), Dec(12, 4), Dec(125, 4), Dec(12, 7),
    Dec(12, 8) }

FormatInit ==
  /\ fmtArgs \in [value : FormatValues,
                  format : {"none", "auto", "K", "M", "B"},
                  decimals : 0..MaxDecimals,
                  useThousandSeparator : BOOLEAN]
  /\ fmtResult = <<>>
  /\ fmtPc = "call"
  /\ AggIdle
  /\ PanelIdle
  /\ LayoutIdle
  /\ ChartIdle
  /\ SeriesIdle
  /\ ScrollIdle
  /\ HoverIdle

\* a label or a tooltip value is formatted
FormatNumber ==
  /\ fmtPc = "call"
  /\ fmtResult' = formatNumber(fmtArgs.value, fmtArgs.format, fmtArgs.decimals,
                               fmtArgs.useThousandSeparator)
  /\ fmtPc' = "done"
  /\ UNCHANGED <<fmtArgs, nonFormatVars>>

FormatNext == FormatNumber

SpecFormat == FormatInit /\ [][FormatNext]_vars

-----------------------------------------------------------------------------
(* Properties of the y scale *)

MaxExp == 7

\* the data range the scale was planned from
Range == DataRange(cfg, aggregatedData)

Linear == panelPc = "rendered" /\ cfg.yAxisScale = "linear"

Log == panelPc = "rendered" /\ cfg.yAxisScale = "log10"

\* the data range is [a, b]
RangeIs(a, b) == Range = [min |-> Fin(Tenths(a)), max |-> Fin(Tenths(b))]

\* the ticks are the numbers ns, in this order
TicksAre(ns) ==
  /\ Len(tickValues) = Len(ns)
  /\ \A i \in 1..Len(ns) : tickValues[i] = Fin(Tenths(ns[i]))

\* the values {1,2,4,5,6,8,10} x 10^k, in tenths
NiceSteps == {n * Pow10(k) : n \in {1, 2, 4, 5, 6, 8, 10}, k \in 0..MaxExp}

C7_TicksZeroToEight ==
  (Linear /\ RangeIs(0, 7)) =>
    /\ niceStep = Fin(Tenths(2))
    /\ TicksAre(<<0, 2, 4, 6, 8>>)
    /\ maxValue = Fin(Tenths(10))

\* C7 amended: the range 0..7 gives niceStep 2, the six ticks
\* 0, 2, 4, 6, 8, 10 and the domain max 10.
C7_TicksZeroToTen ==
  (Linear /\ RangeIs(0, 7)) =>
    /\ niceStep = Fin(Tenths(2))
    /\ minValue = Fin(0)
    /\ TicksAre(<<0, 2, 4, 6, 8, 10>>)
    /\ maxValue = Fin(Tenths(10))

\* C7 witness: a linear axis was planned for the range 0..7.
C7_Witness == Linear /\ RangeIs(0, 7) /\ Len(tickValues) > 0

\* C8: for flat or inverted data (max <= min) the linear planner still
\* gives niceStep > 0, domain max > domain min and finite, distinct ticks.
C8_FlatDataAxis ==
  (Linear /\ ~JsLess(Range.min, Range.max)) =>
    /\ JsLess(Fin(0), niceStep)
    /\ JsLess(minValue, maxValue)
    /\ \A i \in 1..Len(tickValues) : isFinite(tickValues[i])
    /\ \A i, j \in 1..Len(tickValues) : i # j => tickValues[i] # tickValues[j]

\* the range after the preconditions of the log scale: min at least 1, max
\* ten times min when it is not above min
ClampedMin == IF Range.min.n < Tenths(1) THEN Tenths(1) ELSE Range.min.n

ClampedMax == IF Range.max.n <= ClampedMin THEN 10 * ClampedMin ELSE Range.max.n

\* floor(log10(ClampedMin)) and ceil(log10(ClampedMax))
MinDecade ==
  CHOOSE d \in 0..(MaxExp + 1) :
    Tenths(Pow10(d)) <= ClampedMin /\ ClampedMin < Tenths(Pow10(d + 1))

MaxDecade ==
  CHOOSE d \in 0..(MaxExp + 1) :
    ClampedMax <= Tenths(Pow10(d)) /\ (d > 0 => Tenths(Pow10(d - 1)) < ClampedMax)

\* max(1, ceil(decadeRange / tickCount))
DecadeStepOf(decadeRange) ==
  CHOOSE st \in 1..(MaxExp + 2) :
    /\ st * tickCount >= decadeRange
    /\ (st > 1 => (st - 1) * tickCount < decadeRange)

\* 10^d for d from MinDecade to MaxDecade by the decade step, and the top decade
PowerTicks ==
  { Tenths(Pow10(d)) : d \in
      { e \in MinDecade..MaxDecade :
          (e - MinDecade) % DecadeStepOf(MaxDecade - MinDecade) = 0 }
      \cup {MaxDecade} }

TickSet == {tickValues[i].n : i \in 1..Len(tickValues)}

TicksAscending ==
  /\ \A i \in 1..Len(tickValues) : isFinite(tickValues[i])
  /\ \A i, j \in 1..Len(tickValues) : i < j => tickValues[i].n < tickValues[j].n

DomainIsTickRange ==
  /\ isFinite(minValue) /\ isFinite(maxValue)
  /\ minValue.n \in TickSet /\ maxValue.n \in TickSet
  /\ \A t \in TickSet : minValue.n <= t /\ t <= maxValue.n

\* C9 as stated: the log planner emits the major ticks 10^d for d from
\* floor(log10(min)) to ceil(log10(max)) by max(1, ceil(decadeRange /
\* tickCount)), with the top decade, and the domain min / max are the
\* smallest / largest major tick.
C9_MajorsArePowersOfTen ==
  Log => /\ TickSet = PowerTicks
         /\ TicksAscending
         /\ DomainIsTickRange

\* C9 amended: as stated when the range spans two decades or more; when it
\* spans one decade the majors are 1, 2, 5 and 10 times 10^floor(log10(min));
\* the domain min / max are the smallest / largest major tick, and the
\* range 1..1000000 gives the majors 1, 100, 10000, 1000000.
C9_MajorsByDecadeRange ==
  Log => /\ IF MaxDecade - MinDecade >= 2 THEN TickSet = PowerTicks
            ELSE TickSet = {m * Tenths(Pow10(MinDecade)) : m \in {1, 2, 5, 10}}
         /\ TicksAscending
         /\ DomainIsTickRange
         /\ minValue.n = Tenths(Pow10(MinDecade))
         /\ maxValue.n = Tenths(Pow10(MaxDecade))
         /\ RangeIs(1, 1000000) => TicksAre(<<1, 100, 10000, 1000000>>)

\* C9 witness: a log axis was planned for the range 1..1000000.
C9_Witness ==
  /\ Log
  /\ RangeIs(1, 1000000)
  /\ minValue = Fin(Tenths(1))
  /\ maxValue = Fin(Tenths(1000000))

-----------------------------------------------------------------------------
(* Properties of yScale *)

Rendered == panelPc = "rendered"

\* the offset of the value v on the scale of the rendered panel
Offset(v) == yScale(cfg.yAxisScale = "log10", minValue, maxValue, v)

\* a <= b for two numbers
JsLeq(a, b) == ~isNaN(a) /\ ~isNaN(b) /\ ~JsLess(b, a)

\* values put on the scale: the ends of the domain, the ticks, the values
\* drawn and some values around them
Probes ==
  {minValue, maxValue}
  \cup {tickValues[i] : i \in 1..Len(tickValues)}
  \cup UNION {{DrawnValues(cfg, aggregatedData[i])[j] :
                 j \in 1..Len(DrawnValues(cfg, aggregatedData[i]))} :
               i \in 1..Len(aggregatedData)}
  \cup {Fin(Tenths(x)) : x \in {-3, 0, 1, 2, 5, 12, 40}}

FullHeight == Fin(1000 * innerHeight)

\* the scale of the rendered panel maps the domain onto the panel's height,
\* larger values higher up, values below a log domain onto the bottom
ScaleMapsDomain ==
  /\ Offset(minValue) = FullHeight
  /\ Offset(maxValue) = Fin(0)
  /\ \A v, w \in Probes : JsLess(v, w) => JsLeq(Offset(w), Offset(v))
  /\ cfg.yAxisScale = "log10" =>
        \A v \in Probes : JsLess(v, minValue) => Offset(v) = Offset(minValue)
  /\ \A i \in 1..Len(bars) : \A j \in 1..Len(bars[i]) :
        bars[i][j] = Offset(DrawnValues(cfg, aggregatedData[i])[j])

\* C11: the scale maps domain.min to the pixel extent and domain.max to 0,
\* never increases with the value, and in log mode maps every value below
\* domain.min to the offset of domain.min
C11_ScaleMapsDomain == Rendered => ScaleMapsDomain

\* the same on a domain of positive width
C11_OnDomainWithWidth == Rendered /\ JsLess(minValue, maxValue) => ScaleMapsDomain

\* C12: the offset of every bar is a finite number, also on a domain of
\* zero width (domain.max = domain.min)
C12_OffsetAlwaysFinite ==
  Rendered => \A i \in 1..Len(bars) : \A j \in 1..Len(bars[i]) : isFinite(bars[i][j])

\* the same on a domain of positive width
C12_FiniteOnDomainWithWidth ==
  Rendered /\ JsLess(minValue, maxValue) =>
    \A i \in 1..Len(bars) : \A j \in 1..Len(bars[i]) : isFinite(bars[i][j])

-----------------------------------------------------------------------------
(* Properties of the dimensions *)

Planned == layoutPc = "planned"

\* visibleWidth - margin.left - margin.right
Viewport == layoutCfg.visibleWidth - layoutCfg.margin.left - layoutCfg.margin.right

\* a = n for an integer n
RatIs(a, n) == a.num = n * a.den

-----------------------------------------------------------------------------
(* Properties of createChart() *)

\* createChart has returned or thrown
Returned == chartResult # "pending"

\* the observations of the series s whose date parses
Parsing(s) == {j \in 1..Len(s) : DateParse(s[j].date).valid}

\* the day keys of the observations of all series whose date parses
DaysOf(ts) ==
  UNION {{dateStr(ts[i][j]) : j \in Parsing(ts[i])} : i \in 1..Len(ts)}

\* the value of the series s on the day: that of its last observation of the
\* day, Null without one
ValueOn(s, day) ==
  LET js == {j \in Parsing(s) : dateStr(s[j]) = day}
  IN  IF js = {} THEN Null
      ELSE s[CHOOSE j \in js : \A k \in js : k <= j].value

\* the records rs align the observations of the series ts that parse: one
\* record per day, ascending, one slot per series, Null where a series has
\* no observation of the day
Aligned(rs, ts) ==
  /\ {rs[k].date : k \in 1..Len(rs)} = DaysOf(ts)
  /\ \A k, l \in 1..Len(rs) : k < l => StrictlyBefore(rs[k].date, rs[l].date)
  /\ \A k \in 1..Len(rs) :
       /\ Len(rs[k].values) = Len(ts)
       /\ \A i \in 1..Len(ts) : rs[k].values[i] = ValueOn(ts[i], rs[k].date)

\* C14: the merge of a staggered / stacked chart gives one record per day
\* of any series, in ascending order of the day, with one slot per series
\* holding the series' value of the day, or null when it has none
C14_SeriesAligned ==
  (isStaggeredOrStacked /\ chartResult \in {"chart", "null"}) =>
    /\ Aligned(chartData, timeSeries)
    /\ sharedAggregatedData = chartData

\* C14 witness: A has days 1, 2, 3 and B days 1, 3; the record of day 2 is
\* [A2, null], that of day 3 holds the observed zeros
C14_Witness ==
  /\ isStaggeredOrStacked
  /\ chartResult = "chart"
  /\ Len(timeSeries[1]) = 3
  /\ Len(timeSeries[2]) = 2
  /\ Len(sharedAggregatedData) = 3
  /\ sharedAggregatedData[2] =
       [date |-> IsoDate(2025, 1, 2), values |-> <<Fin(20000), Null>>]
  /\ sharedAggregatedData[3].values = <<Fin(0), Fin(0)>>

\* the observations of the bar chart's series that are valid, in the order
\* given
ValidPoints == SelectSeq(timeSeries[1], Valid)

Passed == chartCfg.renderType = "bar" /\ chartCfg.chartType = "byDay" /\ Returned

\* one record per valid observation, in the order given, with count 1
OnePerObservation ==
  /\ Len(sharedAggregatedData) = Len(ValidPoints)
  /\ \A k \in 1..Len(sharedAggregatedData) :
       /\ sharedAggregatedData[k].date = dateStr(ValidPoints[k])
       /\ sharedAggregatedData[k].value = ValidPoints[k].value
       /\ sharedAggregatedData[k].count = 1

\* the records are in ascending order of the date
SortedByDate ==
  \A k, l \in 1..Len(sharedAggregatedData) :
    k < l => localeCompare(sharedAggregatedData[k].date,
                           sharedAggregatedData[l].date) <= 0

\* C16: in byDay mode processData gives one record with count 1 per valid
\* observation, and the records are in ascending order of the date whatever
\* the order of the observations
C16_PassthroughSorted ==
  Passed =>
    /\ Len(sharedAggregatedData) = Len(ValidPoints)
    /\ \A k \in 1..Len(sharedAggregatedData) : sharedAggregatedData[k].count = 1
    /\ SortedByDate

\* the part of C16 without the order
C16_OnePerObservation == Passed => OnePerObservation

\* C17: in byDay mode every record has the highValue and the lowValue of its
\* observation when they are supplied, 0 included, and the value otherwise
C17_OwnHighLow ==
  (Passed /\ OnePerObservation) =>
    \A k \in 1..Len(sharedAggregatedData) :
      LET o == ValidPoints[k]
          r == sharedAggregatedData[k]
      IN  /\ r.highValue = IF o.highValue # Undefined THEN o.highValue ELSE o.value
          /\ r.lowValue = IF o.lowValue # Undefined THEN o.lowValue ELSE o.value

\* the same for the values supplied that are not 0
C17_NonZeroHighLow ==
  (Passed /\ OnePerObservation) =>
    \A k \in 1..Len(sharedAggregatedData) :
      LET o == ValidPoints[k]
          r == sharedAggregatedData[k]
      IN  /\ r.highValue = IF o.highValue \notin {Undefined, Fin(0)}
                           THEN o.highValue ELSE o.value
          /\ r.lowValue = IF o.lowValue \notin {Undefined, Fin(0)}
                          THEN o.lowValue ELSE o.value

\* C20: a staggered / stacked chart with an observation whose date does not
\* parse raises no exception; the observation is left out and the others
\* are charted
C20_UnparseableFiltered ==
  (isStaggeredOrStacked /\ Returned) =>
    /\ chartResult # "RangeError"
    /\ Aligned(sharedAggregatedData, timeSeries)

-----------------------------------------------------------------------------
(* Properties of the data range of staggered and stacked panels *)

RECURSIVE SumOfPresent(_, _)
\* the sum of the values of the slots j .. of the record d that hold a value
SumOfPresent(d, j) ==
  IF j > Len(d.values) THEN 0
  ELSE (IF d.values[j] = Null THEN 0 ELSE d.values[j].n) + SumOfPresent(d, j + 1)

\* the slots of all records that hold a value
PresentSlots ==
  UNION {{<<i, j>> : j \in {k \in 1..Len(aggregatedData[i].values) :
                               aggregatedData[i].values[k] # Null}} :
         i \in 1..Len(aggregatedData)}

\* C15: the data maximum of a stacked panel is the largest sum of the present
\* values of a record, that of a staggered panel the largest present value
C15_StackedSumStaggeredSingle ==
  /\ (Rendered /\ cfg.renderType = "stacked") =>
       /\ \E i \in 1..Len(aggregatedData) :
            Range.max = Fin(SumOfPresent(aggregatedData[i], 1))
       /\ \A i \in 1..Len(aggregatedData) :
            SumOfPresent(aggregatedData[i], 1) <= Range.max.n
  /\ (Rendered /\ cfg.renderType = "staggered") =>
       /\ \E p \in PresentSlots : Range.max = aggregatedData[p[1]].values[p[2]]
       /\ \A p \in PresentSlots : aggregatedData[p[1]].values[p[2]].n <= Range.max.n

\* C15 witness: a stacked panel of the records [3, 7] and [7, null] has the
\* data maximum 10, the sum of the first record
C15_Witness ==
  /\ Rendered
  /\ cfg.renderType = "stacked"
  /\ aggregatedData = <<Multi(<<Fin(Tenths(3)), Fin(Tenths(7))>>),
                        Multi(<<Fin(Tenths(7)), Null>>)>>
  /\ Range.max = Fin(Tenths(10))
  /\ JsLeq(Fin(Tenths(10)), maxValue)

-----------------------------------------------------------------------------
(* Properties of the bucket keys across the modes *)

\* the Day key of observation j of data
DayKeyOf(j) == toISODate(DateParse(data[j].date))

\* the ISO week number of a day number
WeekNumberOfDay(day) ==
  LET thursday == day - ((day + 3) % 7) + 3
  IN  (thursday - DaysFromCivil(CivilFromDays(thursday).y, 1, 1)) \div 7 + 1

\* the key of observation j in the mode m, taken from the calendar date of
\* its Day key; the week key as the library writes it, year-Wweek
KeyFromDayKey(j, m) ==
  LET day == UTCDay(DateParse(data[j].date))
  IN  CASE m = "byDay"     -> DayKeyOf(j)
        [] m = "byMonth"   -> SubSeq(DayKeyOf(j), 1, 7)
        [] m = "byYear"    -> SubSeq(DayKeyOf(j), 1, 4)
        [] m = "byWeekday" -> JsString((day + 4) % 7)
        [] m = "byWeek"    -> SubSeq(DayKeyOf(j), 1, 4) \o <<"-", "W">>
                                \o padStart(JsString(WeekNumberOfDay(day)), 2)

\* every kept observation is in the bucket that its Day key gives
KeysFollowDayKey ==
  \A j \in Kept : \E i \in 1..Len(result) : result[i].date = KeyFromDayKey(j, mode)

\* C18: in every environment the Month key of a timestamp is the first 7
\* characters of its Day key, the Year key the first 4, and the Weekday and
\* Week keys are those of the calendar date of the Day key
C18_OneTimezoneConvention == pc # "build" => KeysFollowDayKey

\* the same where local time is not behind UTC
C18_EastOfGreenwich == (pc # "build" /\ tz >= 0) => KeysFollowDayKey

\* the position in result of the bucket of observation j of data
BucketOf(j) == CHOOSE i \in 1..Len(result) : result[i].date = KeyOf(j)

\* an earlier record holds earlier observations only
KeyOrderIsTimeOrder ==
  \A j, k \in Kept :
    BucketOf(j) < BucketOf(k) =>
      DateParse(data[j].date).t < DateParse(data[k].date).t

\* C19: in the Day, Week, Month and Year modes the order of the records, the
\* ascending string order of the keys, is the order in time: every
\* observation of a record is earlier than every observation of a later one
C19_KeyOrderIsChronological ==
  (pc # "build" /\ mode \in {"byDay", "byWeek", "byMonth", "byYear"}) =>
    KeyOrderIsTimeOrder

\* the same without the Week mode
C19_DayMonthYear ==
  (pc # "build" /\ mode \in {"byDay", "byMonth", "byYear"}) => KeyOrderIsTimeOrder

-----------------------------------------------------------------------------
(* Properties of the records of aggregates() *)

\* the observations of the bucket of the record r have at most two decimals
BucketHasTwoDecimals(r) ==
  \A j \in Kept : (KeyOf(j) = r.date /\ isFinite(data[j].value)) =>
                    data[j].value.n % 10 = 0

-----------------------------------------------------------------------------
(* Properties of the minor ticks of a log axis *)

\* round(4 * (1 - i / max(1, n - 1))): the integer nearest to the quotient,
\* the upper one at a tie
IsCap(c, i, n) ==
  LET m == IF n - 1 > 1 THEN n - 1 ELSE 1
  IN  /\ 2 * c * m <= 8 * (m - i) + m
      /\ 8 * (m - i) + m < 2 * (c + 1) * m

\* the values of the sequence s
ValuesOf(s) == {s[j] : j \in 1..Len(s)}

\* k values of the candidates, each a candidate, in the candidates' order
SubsampleOf(selected, candidates, k) ==
  /\ Len(selected) = k
  /\ \A j \in 1..k : selected[j] \in ValuesOf(candidates)
  /\ \A j \in 1..(k - 1) : JsLess(selected[j], selected[j + 1])

\* C25: interval i of a log axis is capped at cap(i); an interval with more
\* candidates than its cap gets exactly cap(i) of them, each a real candidate
\* of that interval, and the top interval gets none
C25_MinorTicksCapped ==
  (Rendered /\ cfg.yAxisScale = "log10") =>
    LET n == Len(minorTicks)
    IN  /\ n = Len(tickValues) - 1
        /\ \A i \in 1..n :
             LET t == minorTicks[i]
             IN  /\ IsCap(t.maxCount, i - 1, n)
                 /\ Len(t.selectedValues) <= t.maxCount
                 /\ Len(t.allIntermediates) > t.maxCount =>
                      SubsampleOf(t.selectedValues, t.allIntermediates, t.maxCount)
        /\ minorTicks[n].selectedValues = <<>>

\* the intervals whose cap is not 1 are subsampled as C25 says
C25_CapsOtherThanOne ==
  (Rendered /\ cfg.yAxisScale = "log10") =>
    LET n == Len(minorTicks)
    IN  /\ n = Len(tickValues) - 1
        /\ \A i \in 1..n :
             LET t == minorTicks[i]
             IN  /\ IsCap(t.maxCount, i - 1, n)
                 /\ (t.maxCount # 1 /\ Len(t.allIntermediates) > t.maxCount) =>
                      SubsampleOf(t.selectedValues, t.allIntermediates, t.maxCount)
        /\ minorTicks[n].selectedValues = <<>>

\* an interval capped at 1 with several candidates: the value selected is
\* undefined, and nothing is drawn
C25_UndefinedSelected ==
  /\ Rendered
  /\ \E i \in 1..Len(minorTicks) :
       /\ minorTicks[i].maxCount = 1
       /\ Len(minorTicks[i].allIntermediates) > 1
       /\ minorTicks[i].selectedValues = <<Undefined>>
       /\ minorTicks[i].drawn = <<>>
-----------------------------------------------------------------------------
(* Properties of the linear domain *)

\* every offset drawn lies on the axis, 0 .. innerHeight
BarsOnAxis ==
  \A i \in 1..Len(bars) : \A j \in 1..Len(bars[i]) :
    /\ JsLeq(Fin(0), bars[i][j])
    /\ JsLeq(bars[i][j], Fin(1000 * innerHeight))

\* C26: the linear domain covers the data range it was planned from, the
\* domain min is <= the data minimum and the domain max is >= the data
\* maximum, so the offset of every bar lies within 0 .. innerHeight
C26_LinearDomainCoversData ==
  Linear => /\ JsLeq(minValue, Range.min)
            /\ JsLeq(Range.max, maxValue)
            /\ BarsOnAxis

\* the same for data with max > min only, where niceStep is positive
C26_CoversDataWithWidth ==
  (Linear /\ JsLess(Range.min, Range.max)) =>
     /\ JsLeq(minValue, Range.min)
     /\ JsLeq(Range.max, maxValue)
     /\ BarsOnAxis

\* the domain min is <= the data minimum whenever max > min
C26_DomainMinCoversData ==
  (Linear /\ JsLess(Range.min, Range.max)) => JsLeq(minValue, Range.min)
-----------------------------------------------------------------------------
(* Properties of formatNumber() *)

\* formatNumber has returned for one of the suffix formats
Suffixed == fmtPc = "done" /\ fmtArgs.format \in {"auto", "K", "M", "B"}

\* the absolute value of the argument
FmtAbs == Dec(Abs(fmtArgs.value.m), fmtArgs.value.e)

\* the decimal exponent of the divisor that belongs to the format: 3, 6, 9
\* for K, M, B; for auto the largest of them that the value reaches, or 0
DivisorExp ==
  LET reached == {p \in {3, 6, 9} : AtLeastPow10(FmtAbs, p)}
  IN  CASE fmtArgs.format = "K" -> 3
        [] fmtArgs.format = "M" -> 6
        [] fmtArgs.format = "B" -> 9
        [] OTHER -> IF reached = {} THEN 0
                    ELSE CHOOSE p \in reached : \A q \in reached : q <= p

\* the absolute value divided by the divisor, rounded to decimals places,
\* in units of 10^-decimals
RoundedScaled ==
  ScaledRound(Dec(FmtAbs.m, FmtAbs.e - DivisorExp), fmtArgs.decimals)

\* the digits and the decimal point of the string returned
DigitsReturned == SelectSeq(fmtResult, LAMBDA c : IsDigit(c) \/ c = ".")

RECURSIVE NumberOf(_)
\* the number that a string of digits denotes
NumberOf(ds) ==
  IF Len(ds) = 0 THEN 0
  ELSE 10 * NumberOf(SubSeq(ds, 1, Len(ds) - 1))
       + (CHOOSE i \in 0..9 : DigitChars[i + 1] = ds[Len(ds)])

\* s is the numeral of n / 10^d with the trailing zeros of the fraction, and
\* only those, left out
DenotesWithoutTrailingZeros(s, n, d) ==
  LET dot   == DotIndex(s, 1)
      whole == SubSeq(s, 1, dot - 1)
      frac  == SubSeq(s, dot + 1, Len(s))
  IN  /\ whole = JsString(n \div Pow10(d))
      /\ \A i \in 1..Len(frac) : IsDigit(frac[i])
      /\ Len(frac) <= d
      /\ dot <= Len(s) => (Len(frac) >= 1 /\ frac[Len(frac)] # "0")
      /\ NumberOf(whole \o frac) * Pow10(d - Len(frac)) = n

\* C28: with the format auto, K, M or B and decimals >= 0 only the trailing
\* zeros of the fraction are removed: the digits returned denote the
\* absolute value divided by the divisor and rounded to decimals places
C28_DigitsDenoteRoundedValue ==
  Suffixed => DenotesWithoutTrailingZeros(DigitsReturned, RoundedScaled, fmtArgs.decimals)

\* the same whenever decimals > 0 or the rounded integer does not end in 0
C28_ExceptIntegersEndingInZero ==
  (Suffixed /\ (fmtArgs.decimals > 0 \/ RoundedScaled % 10 # 0)) =>
    DenotesWithoutTrailingZeros(DigitsReturned, RoundedScaled, fmtArgs.decimals)

\* 120000 with the format auto and decimals = 0 is returned as 12K
C28_IntegerZerosRemoved ==
  /\ Suffixed
  /\ fmtArgs.value = Dec(12, 4) /\ fmtArgs.format = "auto" /\ fmtArgs.decimals = 0
  /\ fmtResult = <<"1", "2", "K">>
-----------------------------------------------------------------------------
(* Properties of the panels of createChart() *)

Created == seriesResult = "chart"

\* the records createChart finds in the first entry of timeSeries, with the
\* data that entry inherits when it has none of its own
FirstRecords ==
  IF Len(seriesConfig) = 0 THEN <<>>
  ELSE LET first == seriesConfig[1]
           other == {i \in 1..Len(seriesConfig) : HasData(seriesConfig[i])}
           d     == IF first.given THEN first.data
                    ELSE IF other = {} THEN <<>>
                    ELSE seriesConfig[CHOOSE i \in other : \A j \in other : i <= j].data
       IN  SelectSeq(d, LAMBDA o : isFinite(o.value))

\* nothing was laid out or created
NothingCreated ==
  /\ ~elementsCreated
  /\ panelBarCount = 0
  /\ renderedPanels = <<>>
  /\ xAxisData = <<>>

\* C21: without timeSeries, or when the first series yields no valid
\* records, createChart returns null before any layout or element is
\* created; the layout is over at least one record and every panel that is
\* rendered has at least one record for its scale
C21_NonEmptyRecordSets ==
  /\ (seriesResult # "pending" /\ Len(FirstRecords) = 0) =>
        (seriesResult = "null" /\ NothingCreated)
  /\ seriesResult = "null" => NothingCreated
  /\ Created =>
       /\ panelBarCount >= 1
       /\ \A i \in 1..Len(renderedPanels) : Len(renderedPanels[i].panelData) >= 1

\* the part of C21 on the early returns and on the first panel
C21_NullBeforeAnyElement ==
  /\ (seriesResult # "pending" /\ Len(FirstRecords) = 0) =>
        (seriesResult = "null" /\ NothingCreated)
  /\ seriesResult = "null" => NothingCreated
  /\ Created =>
       /\ panelBarCount >= 1
       /\ Len(renderedPanels) >= 1
       /\ Len(renderedPanels[1].panelData) = panelBarCount

\* a panel was rendered without a record
C21_PanelWithoutRecords ==
  /\ Created
  /\ \E i \in 1..Len(renderedPanels) : renderedPanels[i].panelData = <<>>

\* the entries of timeSeries without data of their own
Inheriting == {i \in 1..Len(seriesConfig) : ~seriesConfig[i].given}

\* the first entry of timeSeries that has data
FirstWithData ==
  CHOOSE i \in 1..Len(seriesConfig) :
    HasData(seriesConfig[i]) /\ \A j \in 1..(i - 1) : ~HasData(seriesConfig[j])

\* some entry has data, and the first entry with data has valid records
SharedDataValid ==
  /\ \E i \in 1..Len(seriesConfig) : HasData(seriesConfig[i])
  /\ \A k \in 1..Len(seriesConfig[FirstWithData].data) :
       isFinite(seriesConfig[FirstWithData].data[k].value)

\* the entry i is a panel of the chart, with the data of the first entry
\* that has data and with its own renderType or 'bar'
InheritsAsPanel(i) ==
  /\ Created
  /\ Len(renderedPanels) = Len(seriesConfig)
  /\ normalizedSeries[i].data = seriesConfig[FirstWithData].data
  /\ Len(renderedPanels[i].panelData) = Len(seriesConfig[FirstWithData].data)
  /\ renderedPanels[i].renderType =
       (IF seriesConfig[i].renderType = NoRenderType THEN "bar"
        ELSE seriesConfig[i].renderType)

\* C23: an entry of timeSeries without data of its own inherits the data of
\* the first entry that has data and is rendered as a panel of its own, with
\* the renderType 'bar' when it has none
C23_InheritsFirstData ==
  (seriesResult # "pending" /\ SharedDataValid /\ Len(FirstRecords) > 0) =>
     \A i \in Inheriting : InheritsAsPanel(i)

\* the same for a timeSeries in which some entry has a renderType
C23_WhenARenderTypeIsGiven ==
  (/\ seriesResult # "pending" /\ SharedDataValid /\ Len(FirstRecords) > 0
   /\ \E j \in 1..Len(seriesConfig) : seriesConfig[j].renderType # NoRenderType) =>
     \A i \in Inheriting : InheritsAsPanel(i)

\* an entry without data and without renderType, and no renderType in any
\* entry: createChart returns null
C23_NullInsteadOfInheriting ==
  /\ seriesResult = "null"
  /\ Len(seriesConfig) = 2
  /\ HasData(seriesConfig[1]) /\ SharedDataValid
  /\ ~seriesConfig[2].given
  /\ \A j \in 1..2 : seriesConfig[j].renderType = NoRenderType

\* the chart has more than one panel
MultiPanel == Created /\ Len(normalizedSeries) > 1

\* the bucket key of bar i of panel p is that of the x-axis label i
SameKeyAsLabel(p, i) ==
  /\ i <= Len(xAxisData)
  /\ renderedPanels[p].panelData[i].date = xAxisData[i].date

\* C27: in a chart of several panels the record drawn at bar i of every
\* panel has the bucket key of the x-axis label i, and every panel has as
\* many bars as the layout has buckets
C27_PanelsAlignedWithAxis ==
  MultiPanel =>
    \A p \in 1..Len(renderedPanels) :
      /\ Len(renderedPanels[p].panelData) = panelBarCount
      /\ \A i \in 1..Len(renderedPanels[p].panelData) : SameKeyAsLabel(p, i)

\* the panels whose data is the data of the first panel are aligned
C27_AlignedOnSharedData ==
  MultiPanel =>
    \A p \in 1..Len(renderedPanels) :
      normalizedSeries[p].data = normalizedSeries[1].data =>
        /\ Len(renderedPanels[p].panelData) = panelBarCount
        /\ \A i \in 1..Len(renderedPanels[p].panelData) : SameKeyAsLabel(p, i)

\* two panels with data of their own for different days
C27_PanelOffAxis ==
  /\ MultiPanel
  /\ Len(renderedPanels[2].panelData) = panelBarCount
  /\ ~SameKeyAsLabel(2, 1)
-----------------------------------------------------------------------------
(* Properties of the synchronized scrolling *)

\* the lock is released and no scroll event waits
Settled == ~syncLock /\ scrollPending = {}

\* C22: once the lock is released and no scroll event is pending, every
\* scroll container has the scrollLeft of the container the user scrolled
\* last
C22_ScrollSynchronized ==
  (Settled /\ lastScrolled # 0) =>
     \A c \in allScrollContainers : scrollLeft[c] = scrollLeft[lastScrolled]

\* the user scrolled on while the lock was held: the containers have
\* settled at different positions
C22_SettledApart ==
  /\ Settled /\ pendingTimers = 0 /\ lastScrolled # 0
  /\ \E c \in allScrollContainers : scrollLeft[c] # scrollLeft[lastScrolled]

\* the lock is held exactly while a release timer is pending
LockIffTimer == syncLock <=> pendingTimers > 0

\* C30: the lock is held exactly while a release timer is pending, at most
\* one release timer is pending, every acquisition of the lock is followed
\* by its release, and a scroll event handled while the lock is held changes
\* no scrollLeft
C30_LockReleasedByTimer ==
  /\ [](LockIffTimer /\ pendingTimers <= 1)
  /\ [][\A c \in allScrollContainers :
          (syncLock /\ OnScroll(c)) => scrollLeft' = scrollLeft]_vars
  /\ (syncLock ~> ~syncLock)

\* C30 witness: the lock was taken for a scroll event of the user, the
\* events of the other containers were handled under it and the timer has
\* released it
C30_Witness ==
  /\ lastScrolled # 0
  /\ scrollLeft[lastScrolled] # 0
  /\ \A c \in allScrollContainers : scrollLeft[c] = scrollLeft[lastScrolled]
  /\ Settled
  /\ pendingTimers = 0
-----------------------------------------------------------------------------
(* Properties of the synchronized hover *)

\* the indicator of the panel q is visible at the bar i
VisibleAt(q, i) ==
  hoverIndicator[q].display = "block" /\ hoverIndicator[q].index = i

\* the indicators of all panels and the tooltip are hidden
AllHidden ==
  /\ \A q \in chartRows : hoverIndicator[q].display = "none"
  /\ tooltipDisplay = "none"

\* C24: while the pointer is inside the hover zone i of a panel, the hover
\* indicator of every panel is visible at the bar i and the tooltip is
\* visible; after the mouseleave all indicators and the tooltip are hidden
C24_HoverSynchronized ==
  IF hoverZone.panel # 0
  THEN /\ \A q \in chartRows : VisibleAt(q, hoverZone.index)
       /\ tooltipDisplay = "block"
  ELSE AllHidden

\* the same for the panels that have a bar i
C24_OnPanelsWithTheBar ==
  IF hoverZone.panel # 0
  THEN /\ \A q \in chartRows :
            hoverZone.index <= barPositions[q] => VisibleAt(q, hoverZone.index)
       /\ tooltipDisplay = "block"
  ELSE AllHidden

\* the pointer is over a bar that another panel does not have: the
\* indicator of that panel stays hidden
C24_IndicatorMissing ==
  /\ hoverZone.panel # 0
  /\ \E q \in chartRows :
       /\ barPositions[q] < hoverZone.index
       /\ hoverIndicator[q].display = "none"
====
